---- MODULE Spec2Model ----
(***************************************************************************)
(* A model of the sudoku-solver propagation engine: the Cell (value,       *)
(* candidates, notifier), the Board (81 cells, constraints, observers),    *)
(* the constraint variants and their on-solve propagation.                 *)
(*                                                                         *)
(* A call of the public API is one action.  The notification cascade a     *)
(* call starts is ordinary call-stack recursion that ends before the call  *)
(* returns, so it is computed inside the action, in the order the code     *)
(* runs it.                                                                *)
(***************************************************************************)
EXTENDS Integers, Sequences, FiniteSets, TLC

\* ------------------------------------------------------------------ bounds

\* The number of API calls of one behaviour.
MaxOps == 3

\* ------------------------------------------------------- program constants

BoardCells == 81
LastIndex == 8
MaxDigit == 9
MinWhisperDiff == 5
MaxCageSum == 45

Cells == 0 .. (BoardCells - 1)
Digits == 1 .. MaxDigit

RowOf(index) == index \div 9
ColOf(index) == index % 9

\* ------------------------------------------------------------------- state

VARIABLES
    value,        \* Cell.value of each of the 81 cells
    candidates,   \* Cell.candidates of each cell, as the set of keys of the map
    notifier,     \* Cell.notifier.observers of each cell, in registration order
    constraints,  \* Board.constraints, in registration order
    observers,    \* Board.observers, in registration order
    call,         \* the last API call and what it returned
    log,          \* the notifications the last call delivered, in delivery order
    history,      \* what the calls so far have done (used to state preconditions)
    ops           \* the number of calls so far

vars == <<value, candidates, notifier, constraints, observers, call, log, history, ops>>

\* ---------------------------------------------------------------- observers

\* An observer registered on a cell is a constraint of Board.constraints
\* (named by its position there) or an external CellObserver.
ConstraintObserver(k) == [type |-> "constraint", id |-> k]
ExternalObserver(n) == [type |-> "external", id |-> n]

CellSolvedMsg(o, i, v) ==
    [kind |-> "CellSolved", obs |-> o, row |-> RowOf(i), col |-> ColOf(i),
     digit |-> v, remaining |-> 0]
CandidateEliminatedMsg(o, i, c, n) ==
    [kind |-> "CandidateEliminated", obs |-> o, row |-> RowOf(i), col |-> ColOf(i),
     digit |-> c, remaining |-> n]
SingleCandidateMsg(o, i, c) ==
    [kind |-> "SingleCandidate", obs |-> o, row |-> RowOf(i), col |-> ColOf(i),
     digit |-> c, remaining |-> 1]

\* ------------------------------------------------------------- constructors

\* A constraint record: the variant, BaseConstraint.Cells, the variant's own
\* field (row, col, box or targetSum) and whether BaseConstraint.Board is set
\* (to the one board of the model).
NoConstraint == [kind |-> "none", Cells |-> <<>>, line |-> 0, targetSum |-> 0, Board |-> FALSE]

RECURSIVE AllInRange(_)
AllInRange(cells) ==
    IF cells = <<>> THEN TRUE
    ELSE IF Head(cells) < 0 \/ Head(cells) > 80 THEN FALSE
    ELSE AllInRange(Tail(cells))

NewRowConstraint(row) ==
    IF row < 0 \/ row > LastIndex THEN [err |-> TRUE, c |-> NoConstraint]
    ELSE [err |-> FALSE,
          c |-> [kind |-> "row", Cells |-> [k \in 1..9 |-> row * 9 + (k - 1)],
                 line |-> row, targetSum |-> 0, Board |-> FALSE]]

NewColumnConstraint(col) ==
    IF col < 0 \/ col > LastIndex THEN [err |-> TRUE, c |-> NoConstraint]
    ELSE [err |-> FALSE,
          c |-> [kind |-> "column", Cells |-> [k \in 1..9 |-> (k - 1) * 9 + col],
                 line |-> col, targetSum |-> 0, Board |-> FALSE]]

NewBoxConstraint(box) ==
    IF box < 0 \/ box > LastIndex THEN [err |-> TRUE, c |-> NoConstraint]
    ELSE LET boxRow == (box \div 3) * 3
             boxCol == (box % 3) * 3
         IN [err |-> FALSE,
             c |-> [kind |-> "box",
                    Cells |-> [k \in 1..9 |->
                                 (boxRow + ((k - 1) \div 3)) * 9 + (boxCol + ((k - 1) % 3))],
                    line |-> box, targetSum |-> 0, Board |-> FALSE]]

\* NewKillerCageConstraint, had it left the upper bound of the target sum
\* unchecked.
NewKillerCageConstraintUnbounded(cells, targetSum) ==
    IF Len(cells) = 0 THEN [err |-> TRUE, c |-> NoConstraint]
    ELSE IF ~AllInRange(cells) THEN [err |-> TRUE, c |-> NoConstraint]
    ELSE IF targetSum < 1 THEN [err |-> TRUE, c |-> NoConstraint]
    ELSE [err |-> FALSE,
          c |-> [kind |-> "killer", Cells |-> cells, line |-> 0, targetSum |-> targetSum,
                 Board |-> FALSE]]

NewKillerCageConstraint(cells, targetSum) ==
    IF Len(cells) = 0 THEN [err |-> TRUE, c |-> NoConstraint]
    ELSE IF ~AllInRange(cells) THEN [err |-> TRUE, c |-> NoConstraint]
    ELSE IF targetSum < 1 \/ targetSum > MaxCageSum THEN [err |-> TRUE, c |-> NoConstraint]
    ELSE [err |-> FALSE,
          c |-> [kind |-> "killer", Cells |-> cells, line |-> 0, targetSum |-> targetSum,
                 Board |-> FALSE]]

NewRenbanConstraint(cells) ==
    IF Len(cells) = 0 THEN [err |-> TRUE, c |-> NoConstraint]
    ELSE IF ~AllInRange(cells) THEN [err |-> TRUE, c |-> NoConstraint]
    ELSE [err |-> FALSE,
          c |-> [kind |-> "renban", Cells |-> cells, line |-> 0, targetSum |-> 0,
                 Board |-> FALSE]]

NewGermanWhispersConstraint(cells) ==
    IF Len(cells) < 2 THEN [err |-> TRUE, c |-> NoConstraint]
    ELSE IF ~AllInRange(cells) THEN [err |-> TRUE, c |-> NoConstraint]
    ELSE [err |-> FALSE,
          c |-> [kind |-> "whispers", Cells |-> cells, line |-> 0, targetSum |-> 0,
                 Board |-> FALSE]]

RequiresUniqueness(c) == c.kind # "whispers"

\* -------------------------------------------------------------------- cell

(***************************************************************************)
(* The cell-level operations act on a board record                         *)
(*     b = [value, candidates, log]                                        *)
(* and return the board after the call: the cells changed and the          *)
(* notifications delivered, appended to the log in delivery order.         *)
(***************************************************************************)

\* The notifier's loop "for _, observer := range cn.observers" for a
\* callback that changes no state: one message per observer, from position
\* k on, in the order of the list.
Deliver(lg, obsList, k, msg) ==
    lg \o [j \in 1..(Len(obsList) - k + 1) |-> [msg EXCEPT !.obs = obsList[k + j - 1]]]

NotifyCandidateEliminated(b, i, c, n) ==
    [b EXCEPT !.log = Deliver(b.log, notifier[i], 1,
                              CandidateEliminatedMsg(ExternalObserver(0), i, c, n))]

NotifySingleCandidate(b, i, c) ==
    [b EXCEPT !.log = Deliver(b.log, notifier[i], 1,
                              SingleCandidateMsg(ExternalObserver(0), i, c))]

\* utils.GetCandidatesAsSlice(c.candidates)[0]: the smallest candidate.
FirstCandidate(cands) == CHOOSE d \in cands : \A e \in cands : d <= e

\* Cell.RemoveCandidate, had it put back every other digit.
CellRemoveCandidateResetting(b, i, c) ==
    IF b.value[i] = 0 /\ c \in b.candidates[i]
    THEN [b EXCEPT !.candidates[i] = Digits \ {c}]
    ELSE b

\* Cell.RemoveCandidate, had it assigned the last candidate left.
CellRemoveCandidateSolving(b, i, c) ==
    IF b.value[i] = 0 /\ c \in b.candidates[i]
    THEN LET b1 == [b EXCEPT !.candidates[i] = @ \ {c}]
             remainingCount == Cardinality(b1.candidates[i])
             b2 == NotifyCandidateEliminated(b1, i, c, remainingCount)
         IN IF remainingCount = 1
            THEN [NotifySingleCandidate(b2, i, FirstCandidate(b1.candidates[i]))
                    EXCEPT !.value[i] = FirstCandidate(b1.candidates[i]),
                           !.candidates[i] = {}]
            ELSE b2
    ELSE b

\* Cell.RemoveCandidate, had it reported the count before the removal.
CellRemoveCandidateMiscounting(b, i, c) ==
    IF b.value[i] = 0 /\ c \in b.candidates[i]
    THEN LET b1 == [b EXCEPT !.candidates[i] = @ \ {c}]
             remainingCount == Cardinality(b.candidates[i])
             b2 == NotifyCandidateEliminated(b1, i, c, remainingCount)
         IN IF remainingCount = 1
            THEN NotifySingleCandidate(b2, i, FirstCandidate(b1.candidates[i]))
            ELSE b2
    ELSE b

\* Cell.RemoveCandidate, had it not looked at the cell first.
CellRemoveCandidateUnguarded(b, i, c) ==
    LET b1 == [b EXCEPT !.candidates[i] = @ \ {c}]
        remainingCount == Cardinality(b1.candidates[i])
        b2 == NotifyCandidateEliminated(b1, i, c, remainingCount)
    IN IF remainingCount = 1
       THEN NotifySingleCandidate(b2, i, FirstCandidate(b1.candidates[i]))
       ELSE b2

CellRemoveCandidate(b, i, c) ==
    IF b.value[i] = 0 /\ c \in b.candidates[i]
    THEN LET b1 == [b EXCEPT !.candidates[i] = @ \ {c}]
             remainingCount == Cardinality(b1.candidates[i])
             b2 == NotifyCandidateEliminated(b1, i, c, remainingCount)
         IN IF remainingCount = 1
            THEN NotifySingleCandidate(b2, i, FirstCandidate(b1.candidates[i]))
            ELSE b2
    ELSE b

CellAddCandidate(b, i, c) ==
    IF b.value[i] = 0 /\ c >= 1 /\ c <= MaxDigit
    THEN [b EXCEPT !.candidates[i] = @ \cup {c}]
    ELSE b

\* --------------------------------------------------- on-solve propagation

\* TRUE.  TLC evaluates an operator's argument when it is first used, which
\* can be deep inside the next step of a loop; "IF Computed(x) THEN e" makes
\* it evaluate x (a record) before e, as the code computes one step before
\* the next.
Computed(x) == DOMAIN x = DOMAIN x

\* The loops of the code are folds over a sequence.  The model splits a long
\* fold in halves (first half, then second half on its result), which runs
\* the steps in the same order.
RECURSIVE FlattenRange(_, _, _)
FlattenRange(ss, lo, hi) ==
    IF lo > hi THEN <<>>
    ELSE IF lo = hi THEN ss[lo]
    ELSE LET mid == (lo + hi) \div 2
         IN FlattenRange(ss, lo, mid) \o FlattenRange(ss, mid + 1, hi)

\* The concatenation of a sequence of sequences.
Flatten(ss) == FlattenRange(ss, 1, Len(ss))

RECURSIVE RemoveRange(_, _, _, _)
RemoveRange(b, attempts, lo, hi) ==
    IF lo > hi THEN b
    ELSE IF lo = hi THEN CellRemoveCandidate(b, attempts[lo][1], attempts[lo][2])
    ELSE LET Rest(left) ==
                 IF Computed(left)
                 THEN RemoveRange(left, attempts, ((lo + hi) \div 2) + 1, hi)
                 ELSE left
         IN Rest(RemoveRange(b, attempts, lo, (lo + hi) \div 2))

\* The Cell.RemoveCandidate calls of one loop, in the order the code makes
\* them: attempts is a sequence of <<cell index, candidate>>.  No call of
\* the loop adds a candidate or clears a cell, so a call that returns at once
\* on b returns at once at its turn: the loop is that of the other calls.
RemoveEach(b, attempts) ==
    LET acting == SelectSeq(attempts,
                      LAMBDA a : b.value[a[1]] = 0 /\ a[2] \in b.candidates[a[1]])
    IN RemoveRange(b, acting, 1, Len(acting))

\* The loop shared by the row, column and box constraints and by the first
\* step of the cage and the consecutive-set line: the solved value leaves
\* every other unsolved cell of the scope.
UniquenessAttempts(c, val, row, col, v) ==
    Flatten([k \in 1..Len(c.Cells) |->
        LET cellIndex == c.Cells[k] IN
        IF (RowOf(cellIndex) # row \/ ColOf(cellIndex) # col) /\ val[cellIndex] = 0
        THEN << <<cellIndex, v>> >>
        ELSE <<>>])

RowPropagateValueChange(c, val, row, col, v) == UniquenessAttempts(c, val, row, col, v)
ColumnPropagateValueChange(c, val, row, col, v) == UniquenessAttempts(c, val, row, col, v)
BoxPropagateValueChange(c, val, row, col, v) == UniquenessAttempts(c, val, row, col, v)

RECURSIVE SumSolved(_, _)
SumSolved(cells, val) ==
    IF cells = <<>> THEN 0 ELSE val[Head(cells)] + SumSolved(Tail(cells), val)

RECURSIVE CountSolved(_, _)
CountSolved(cells, val) ==
    IF cells = <<>> THEN 0
    ELSE (IF val[Head(cells)] # 0 THEN 1 ELSE 0) + CountSolved(Tail(cells), val)

KillerCagePropagateValueChange(c, val, row, col, v) ==
    LET cells == c.Cells
        currentSum == SumSolved(cells, val)
        filledCount == CountSolved(cells, val)
        remainingCells == Len(cells) - filledCount
        remainingSum == c.targetSum - currentSum
        Violates(candidate) ==
            IF remainingCells = 1
            THEN candidate # remainingSum
            ELSE \/ remainingSum - candidate < remainingCells - 1
                 \/ remainingSum - candidate > (remainingCells - 1) * 9
    IN UniquenessAttempts(c, val, row, col, v)
       \o Flatten([k \in 1..Len(cells) |->
            IF val[cells[k]] = 0
            THEN SelectSeq([d \in 1..9 |-> <<cells[k], d>>],
                           LAMBDA a : Violates(a[2]))
            ELSE <<>>])

RECURSIVE MinOf(_, _)
MinOf(cells, val) ==
    IF cells = <<>> THEN 10
    ELSE LET m == MinOf(Tail(cells), val)
             x == val[Head(cells)]
         IN IF x # 0 /\ x < m THEN x ELSE m

RECURSIVE MaxOf(_, _)
MaxOf(cells, val) ==
    IF cells = <<>> THEN 0
    ELSE LET m == MaxOf(Tail(cells), val)
             x == val[Head(cells)]
         IN IF x # 0 /\ x > m THEN x ELSE m

RenbanPropagateValueChange(c, val, row, col, v) ==
    LET cells == c.Cells
        lo == MinOf(cells, val)
        hi == MaxOf(cells, val)
        minVal == IF lo < v THEN lo ELSE v
        maxVal == IF hi > v THEN hi ELSE v
        totalCells == Len(cells)
        TooWide(candidate) ==
            LET newMin == IF candidate < minVal THEN candidate ELSE minVal
                newMax == IF candidate > maxVal THEN candidate ELSE maxVal
            IN newMax - newMin + 1 > totalCells
    IN UniquenessAttempts(c, val, row, col, v)
       \o Flatten([k \in 1..Len(cells) |->
            IF val[cells[k]] = 0
            THEN SelectSeq([d \in 1..9 |-> <<cells[k], d>>],
                           LAMBDA a : TooWide(a[2]))
            ELSE <<>>])

AbsDiff(a, b) == IF a - b < 0 THEN b - a ELSE a - b

\* The first position of the cell in the line, or 0 when it is not on it
\* (the code's -1; positions are 1-based here).
FirstPosition(cells, cellIndex) ==
    IF \E k \in 1..Len(cells) : cells[k] = cellIndex
    THEN CHOOSE k \in 1..Len(cells) :
            /\ cells[k] = cellIndex
            /\ \A j \in 1..(k - 1) : cells[j] # cellIndex
    ELSE 0

\* GermanWhispersConstraint.PropagateValueChange, had it also removed the
\* digits at distance 5 from the value.
GermanWhispersPropagateValueChangeUpToFive(c, val, row, col, v) ==
    LET cells == c.Cells
        pos == FirstPosition(cells, row * 9 + col)
        Near(idx) ==
            IF val[idx] = 0
            THEN SelectSeq([d \in 1..9 |-> <<idx, d>>],
                           LAMBDA a : AbsDiff(a[2], v) <= MinWhisperDiff)
            ELSE <<>>
    IN IF pos = 0 THEN <<>>
       ELSE (IF pos > 1 THEN Near(cells[pos - 1]) ELSE <<>>)
            \o (IF pos < Len(cells) THEN Near(cells[pos + 1]) ELSE <<>>)

\* GermanWhispersConstraint.PropagateValueChange: the digits closer than 5
\* to the value leave the unsolved neighbours of the cell on the line.
GermanWhispersPropagateValueChange(c, val, row, col, v) ==
    LET cells == c.Cells
        pos == FirstPosition(cells, row * 9 + col)
        Near(idx) ==
            IF val[idx] = 0
            THEN SelectSeq([d \in 1..9 |-> <<idx, d>>],
                           LAMBDA a : AbsDiff(a[2], v) < MinWhisperDiff)
            ELSE <<>>
    IN IF pos = 0 THEN <<>>
       ELSE (IF pos > 1 THEN Near(cells[pos - 1]) ELSE <<>>)
            \o (IF pos < Len(cells) THEN Near(cells[pos + 1]) ELSE <<>>)

\* Constraint.PropagateValueChange called through the Constraint interface,
\* which dispatches on the variant: the RemoveCandidate calls it makes, in
\* order.  Every variant returns at once for value 0 and for a constraint
\* without board.  The values the propagation reads do not change while it
\* runs.
PropagateValueChange(c, val, row, col, v) ==
    IF v = 0 THEN <<>>
    ELSE IF ~c.Board THEN <<>>
    ELSE CASE c.kind = "row" -> RowPropagateValueChange(c, val, row, col, v)
           [] c.kind = "column" -> ColumnPropagateValueChange(c, val, row, col, v)
           [] c.kind = "box" -> BoxPropagateValueChange(c, val, row, col, v)
           [] c.kind = "killer" -> KillerCagePropagateValueChange(c, val, row, col, v)
           [] c.kind = "renban" -> RenbanPropagateValueChange(c, val, row, col, v)
           [] c.kind = "whispers" -> GermanWhispersPropagateValueChange(c, val, row, col, v)
           [] OTHER -> <<>>

\* BaseConstraint.PropagateValueChange: "Base implementation does nothing".
BasePropagateValueChange(c, val, row, col, v) == <<>>

\* observer.OnCellSolved, had it told the observer twice.
OnCellSolvedRepeated(b, o, i, v) ==
    LET b1 == [b EXCEPT !.log = Append(Append(@, CellSolvedMsg(o, i, v)),
                                       CellSolvedMsg(o, i, v))]
    IN IF o.type = "constraint"
       THEN RemoveEach(b1, BasePropagateValueChange(constraints[o.id], b1.value,
                                                    RowOf(i), ColOf(i), v))
       ELSE b1

\* observer.OnCellSolved(row, col, value) of one observer.  No variant
\* declares OnCellSolved: a constraint's OnCellSolved is the method promoted
\* from the embedded BaseConstraint.  Its receiver is the BaseConstraint, so
\* the PropagateValueChange it calls is BaseConstraint's, never the
\* variant's (Go has no dispatch through an embedded struct).  An external
\* observer only receives the message.
OnCellSolved(b, o, i, v) ==
    LET b1 == [b EXCEPT !.log = Append(@, CellSolvedMsg(o, i, v))]
    IN IF o.type = "constraint"
       THEN RemoveEach(b1, BasePropagateValueChange(constraints[o.id], b1.value,
                                                    RowOf(i), ColOf(i), v))
       ELSE b1

RECURSIVE NotifyFrom(_, _, _, _)
NotifyFrom(b, i, v, k) ==
    IF k > Len(notifier[i]) THEN b
    ELSE LET Rest(b1) == IF Computed(b1) THEN NotifyFrom(b1, i, v, k + 1) ELSE b1
         IN Rest(OnCellSolved(b, notifier[i][k], i, v))

\* CellNotifier.NotifyCellSolved, had it passed over the first observer.
NotifyCellSolvedAfterFirst(b, i, v) == NotifyFrom(b, i, v, 2)

NotifyCellSolved(b, i, v) == NotifyFrom(b, i, v, 1)

\* Cell.SetValue, had it kept the candidates of the cell it solves.
CellSetValueKeeping(b, i, v) ==
    IF v < 0 \/ v > MaxDigit THEN [b |-> b, err |-> TRUE]
    ELSE LET b1 == [b EXCEPT !.value[i] = v]
         IN IF v # 0
            THEN [b |-> NotifyCellSolved(b1, i, v), err |-> FALSE]
            ELSE [b |-> b1, err |-> FALSE]

\* Cell.SetValue, had it taken any value.
CellSetValueUnchecked(b, i, v) ==
    LET b1 == [b EXCEPT !.value[i] = v]
    IN IF v # 0
       THEN [b |-> NotifyCellSolved([b1 EXCEPT !.candidates[i] = {}], i, v),
             err |-> FALSE]
       ELSE [b |-> b1, err |-> FALSE]

CellSetValue(b, i, v) ==
    IF v < 0 \/ v > MaxDigit THEN [b |-> b, err |-> TRUE]
    ELSE LET b1 == [b EXCEPT !.value[i] = v]
         IN IF v # 0
            THEN [b |-> NotifyCellSolved([b1 EXCEPT !.candidates[i] = {}], i, v),
                  err |-> FALSE]
            ELSE [b |-> b1, err |-> FALSE]

\* ------------------------------------------------------------------- board

BoardSet(b, row, col, v) ==
    IF row < 0 \/ row > LastIndex \/ col < 0 \/ col > LastIndex
    THEN [b |-> b, err |-> TRUE]
    ELSE CellSetValue(b, row * 9 + col, v)

\* Board.Get, had it read the cell of the transposed position.
BoardGetTransposed(val, row, col) ==
    IF row < 0 \/ row > LastIndex \/ col < 0 \/ col > LastIndex
    THEN 0
    ELSE val[col * 9 + row]

BoardGet(val, row, col) ==
    IF row < 0 \/ row > LastIndex \/ col < 0 \/ col > LastIndex THEN 0
    ELSE val[row * 9 + col]

\* -------------------------------------------------------------- validation

\* Board.GetRow, Board.GetColumn, Board.GetBox: the nine values of a unit.
GetRow(val, row) == [i \in 1..9 |-> val[row * 9 + (i - 1)]]

GetColumn(val, col) == [i \in 1..9 |-> val[(i - 1) * 9 + col]]

GetBox(val, box) ==
    [i \in 1..9 |->
        val[((box \div 3) * 3 + ((i - 1) \div 3)) * 9 + ((box % 3) * 3 + ((i - 1) % 3))]]

RECURSIVE HasUniqueFrom(_, _, _)
\* The loop of utils.HasUniqueNonZeros from position k on, seen the values
\* met so far.
HasUniqueFrom(values, k, seen) ==
    IF k > Len(values) THEN TRUE
    ELSE IF values[k] = 0 THEN HasUniqueFrom(values, k + 1, seen)
    ELSE IF values[k] < 1 \/ values[k] > 9 THEN FALSE
    ELSE IF values[k] \in seen THEN FALSE
    ELSE HasUniqueFrom(values, k + 1, seen \cup {values[k]})

HasUniqueNonZeros(values) == HasUniqueFrom(values, 1, {})

\* "values[i] = board.Get(row, col)" over the scope, in scope order.
ScopeValues(c, val) ==
    [i \in 1..Len(c.Cells) |-> BoardGet(val, RowOf(c.Cells[i]), ColOf(c.Cells[i]))]

RECURSIVE SumOf(_)
SumOf(values) == IF values = <<>> THEN 0 ELSE Head(values) + SumOf(Tail(values))

\* RowConstraint.IsValid, had it passed every row.
RowIsValidAlways(c, val) == TRUE

RowIsValid(c, val) == HasUniqueNonZeros(GetRow(val, c.line))

ColumnIsValid(c, val) == HasUniqueNonZeros(GetColumn(val, c.line))

BoxIsValid(c, val) == HasUniqueNonZeros(GetBox(val, c.line))

\* KillerCageConstraint.IsValid, had it compared the sum with the target in
\* the same way whether or not the cage is complete.
KillerCageIsValidAtMostTarget(c, val) ==
    /\ HasUniqueNonZeros(ScopeValues(c, val))
    /\ SumOf(ScopeValues(c, val)) <= c.targetSum

KillerCageIsValid(c, val) ==
    LET values == ScopeValues(c, val)
        sum == SumOf(values)
        hasEmpty == \E i \in 1..Len(values) : values[i] = 0
    IN IF ~HasUniqueNonZeros(values) THEN FALSE
       ELSE IF ~hasEmpty THEN sum = c.targetSum
       ELSE sum <= c.targetSum

\* RenbanConstraint.IsValid, had it judged a complete line on distinctness
\* only.
RenbanIsValidDistinct(c, val) == HasUniqueNonZeros(ScopeValues(c, val))

RenbanIsValid(c, val) ==
    LET values == ScopeValues(c, val)
        hasEmpty == \E i \in 1..Len(values) : values[i] = 0
        sorted == SortSeq(values, LAMBDA a, b : a < b)
    IN IF hasEmpty THEN HasUniqueNonZeros(values)
       ELSE IF ~HasUniqueNonZeros(values) THEN FALSE
       ELSE \A i \in 2..Len(sorted) : sorted[i] = sorted[i - 1] + 1

\* GermanWhispersConstraint.IsValid, had it asked for distinct values too.
GermanWhispersIsValidDistinct(c, val) ==
    /\ HasUniqueNonZeros(ScopeValues(c, val))
    /\ \A i \in 1..(Len(c.Cells) - 1) :
          \/ ScopeValues(c, val)[i] = 0
          \/ ScopeValues(c, val)[i + 1] = 0
          \/ AbsDiff(ScopeValues(c, val)[i], ScopeValues(c, val)[i + 1]) >= MinWhisperDiff

GermanWhispersIsValid(c, val) ==
    LET values == ScopeValues(c, val)
    IN \A i \in 1..(Len(values) - 1) :
          \/ values[i] = 0
          \/ values[i + 1] = 0
          \/ AbsDiff(values[i], values[i + 1]) >= MinWhisperDiff

\* Constraint.IsValid(board), dispatched on the variant.  The board is
\* never nil here, so no variant returns an error.
IsValid(c, val) ==
    CASE c.kind = "row" -> RowIsValid(c, val)
      [] c.kind = "column" -> ColumnIsValid(c, val)
      [] c.kind = "box" -> BoxIsValid(c, val)
      [] c.kind = "killer" -> KillerCageIsValid(c, val)
      [] c.kind = "renban" -> RenbanIsValid(c, val)
      [] c.kind = "whispers" -> GermanWhispersIsValid(c, val)
      [] OTHER -> TRUE

\* Board.ValidateAll: false at the first constraint that is not valid.
\* The loop of Board.ValidateAll, had it gone on after a constraint that is
\* not valid.
ValidateEvery(cs, val, k) ==
    [valid |-> \A j \in k..Len(cs) : IsValid(cs[j], val), evaluated |-> Len(cs)]

RECURSIVE ValidateFrom(_, _, _)
\* The loop of Board.ValidateAll from the k-th constraint on: the result and
\* the number of constraints whose IsValid has been called when it returns.
\* IsValid returns an error for a nil board only, and the board passes
\* itself.
ValidateFrom(cs, val, k) ==
    IF k > Len(cs) THEN [valid |-> TRUE, evaluated |-> Len(cs)]
    ELSE IF ~IsValid(cs[k], val) THEN [valid |-> FALSE, evaluated |-> k]
    ELSE ValidateFrom(cs, val, k + 1)

BoardValidateAll(cs, val) == ValidateFrom(cs, val, 1).valid

\* ------------------------------------------------ subset-elimination engine

(***************************************************************************)
(* A deduction pass acts on a pass record  s = [b, changed]: the board     *)
(* and whether a candidate has been removed so far.  Where the code        *)
(* ranges over a Go map (the digits of a candidate union, the cells of a   *)
(* cell union) the removals of that loop hit distinct (cell, digit) pairs, *)
(* so the board after the loop is the same in every iteration order; the   *)
(* model takes them in ascending order and a pass keeps no log.            *)
(***************************************************************************)

\* The digits of a set in ascending order.
RECURSIVE Ascending(_)
Ascending(S) ==
    IF S = {} THEN <<>>
    ELSE LET m == CHOOSE x \in S : \A y \in S : x <= y
         IN <<m>> \o Ascending(S \ {m})

HasCandidate(b, i, c) == b.value[i] = 0 /\ c \in b.candidates[i]

GetCandidates(b, i) == IF b.value[i] # 0 THEN {} ELSE b.candidates[i]

CandidateCount(b, i) == IF b.value[i] # 0 THEN 0 ELSE Cardinality(b.candidates[i])

RECURSIVE Generate(_, _, _, _)
\* The recursion of utils.GenerateCombinations: the combinations that
\* extend prefix with items from start on, in the order the code appends
\* them.  Items are 1 .. n here (the code's 0 .. n-1).
Generate(n, k, start, prefix) ==
    IF Len(prefix) = k THEN <<prefix>>
    ELSE Flatten([j \in 1..(n - start + 1) |->
                    Generate(n, k, start + j, Append(prefix, start + j - 1))])

\* utils.GenerateCombinations, had it dropped the last combination.
GenerateCombinationsButLast(n, k) ==
    IF k > n \/ k < 0 THEN <<>>
    ELSE LET ButLast(all) == SubSeq(all, 1, Len(all) - 1)
         IN ButLast(Generate(n, k, 1, <<>>))

GenerateCombinations(n, k) ==
    IF k > n \/ k < 0 THEN <<>> ELSE Generate(n, k, 1, <<>>)

\* GenerateCombinations for the sizes a 9-cell scope and 9 digits need,
\* tabulated once.
CombinationTable ==
    [n \in 0..MaxDigit |-> [k \in 0..MaxDigit |-> GenerateCombinations(n, k)]]

Combinations(n, k) ==
    IF n \in 0..MaxDigit /\ k \in 0..MaxDigit
    THEN CombinationTable[n][k]
    ELSE GenerateCombinations(n, k)

\* "cell != nil && !cell.IsSolved()" over the scope, in scope order.
UnsolvedCells(b, cellIndices) ==
    SelectSeq(cellIndices, LAMBDA idx : idx >= 0 /\ idx <= 80 /\ b.value[idx] = 0)

Range(seq) == { seq[k] : k \in 1..Len(seq) }

\* The removals of one loop of a deduction pass, "if cell.HasCandidate(c)
\* { cell.RemoveCandidate(c); changed = true }" for each attempt: the digit
\* leaves the cell that holds it.  The notifications of these removals reach
\* constraints, which ignore them, and the observers of the caller, in an
\* order that follows the iteration of Go maps: a pass keeps no log.
Eliminate(s, attempts) ==
    LET acting == { a \in Range(attempts) : HasCandidate(s.b, a[1], a[2]) }
    IN [b |-> [s.b EXCEPT !.candidates =
                  [i \in Cells |-> @[i] \ { a[2] : a \in { x \in acting : x[1] = i } }]],
        changed |-> s.changed \/ acting # {}]

\* The union of the candidates of the cells of one combination.
CandidateUnion(b, unsolvedCells, combo) ==
    UNION { GetCandidates(b, unsolvedCells[combo[k]]) : k \in 1..Len(combo) }

\* "len(candidateUnion) == subsetSize"
IsNakedSubset(b, unsolvedCells, combo) ==
    Cardinality(CandidateUnion(b, unsolvedCells, combo)) = Len(combo)

\* One combination of ApplyNakedSubsets, had the removal loop not skipped the
\* cells of the subset.
NakedSubsetFromEveryCell(s, unsolvedCells, combo) ==
    LET digits == Ascending(CandidateUnion(s.b, unsolvedCells, combo))
    IN IF IsNakedSubset(s.b, unsolvedCells, combo)
       THEN Eliminate(s,
                Flatten([k \in 1..Len(unsolvedCells) |->
                    [j \in 1..Len(digits) |-> <<unsolvedCells[k], digits[j]>>]]))
       ELSE s

\* One combination of ApplyNakedSubsets.
NakedSubset(s, unsolvedCells, combo) ==
    LET subsetCells == { unsolvedCells[combo[k]] : k \in 1..Len(combo) }
        digits == Ascending(CandidateUnion(s.b, unsolvedCells, combo))
    IN IF IsNakedSubset(s.b, unsolvedCells, combo)
       THEN Eliminate(s,
                Flatten([k \in 1..Len(unsolvedCells) |->
                    IF unsolvedCells[k] \notin subsetCells
                    THEN [j \in 1..Len(digits) |-> <<unsolvedCells[k], digits[j]>>]
                    ELSE <<>>]))
       ELSE s

\* A naked subset that removes something: a cell of unsolvedCells outside
\* the combination holds a digit of its union.
NakedSubsetActs(b, unsolvedCells, combo) ==
    /\ IsNakedSubset(b, unsolvedCells, combo)
    /\ \E k \in 1..Len(unsolvedCells) :
          /\ \A j \in 1..Len(combo) : unsolvedCells[combo[j]] # unsolvedCells[k]
          /\ GetCandidates(b, unsolvedCells[k])
                \cap CandidateUnion(b, unsolvedCells, combo) # {}

\* The combinations from lo on whose step changes board b, in order.
NakedActing(b, unsolvedCells, combos, lo) ==
    SelectSeq([k \in 1..(Len(combos) - lo + 1) |-> lo + k - 1],
              LAMBDA k : NakedSubsetActs(b, unsolvedCells, combos[k]))

\* One step of "for _, combo := range combinations" of ApplyNakedSubsets,
\* at combination st.next.  A combination that is no naked subset, or one
\* that finds nothing to remove, leaves the board and changed as they are,
\* so the step moves to the first combination that removes something and
\* applies it.
NakedStep(st, unsolvedCells, combos) ==
    LET acting == NakedActing(st.s.b, unsolvedCells, combos, st.next)
    IN IF acting = <<>> THEN [s |-> st.s, next |-> Len(combos) + 1]
       ELSE [s |-> NakedSubset(st.s, unsolvedCells, combos[acting[1]]),
             next |-> acting[1] + 1]

RECURSIVE NakedSteps(_, _, _, _)
\* n steps of the loop, the first half before the second; a loop that has
\* passed its last combination stays where it is.
NakedSteps(st, unsolvedCells, combos, n) ==
    IF n = 0 \/ st.next > Len(combos) THEN st
    ELSE IF n = 1 THEN NakedStep(st, unsolvedCells, combos)
    ELSE LET Rest(half) ==
                 IF Computed(half)
                 THEN NakedSteps(half, unsolvedCells, combos, n - (n \div 2))
                 ELSE half
         IN Rest(NakedSteps(st, unsolvedCells, combos, n \div 2))

RECURSIVE NakedRun(_, _, _, _)
\* The loop to its end: n steps, then twice as many, until it has passed
\* the last combination.
NakedRun(st, unsolvedCells, combos, n) ==
    LET Rest(reached) ==
            IF reached.next > Len(combos) THEN reached
            ELSE NakedRun(reached, unsolvedCells, combos, 2 * n)
    IN Rest(NakedSteps(st, unsolvedCells, combos, n))

\* "for _, combo := range combinations" of ApplyNakedSubsets.
NakedCombos(s, unsolvedCells, combos) ==
    NakedRun([s |-> s, next |-> 1], unsolvedCells, combos, 1).s

RECURSIVE NakedSizes(_, _, _, _)
NakedSizes(s, unsolvedCells, subsetSize, maxSize) ==
    IF subsetSize > maxSize THEN s
    ELSE LET Rest(s1) ==
                 IF Computed(s1)
                 THEN NakedSizes(s1, unsolvedCells, subsetSize + 1, maxSize)
                 ELSE s1
         IN Rest(NakedCombos(s, unsolvedCells,
                             Combinations(Len(unsolvedCells), subsetSize)))

ApplyNakedSubsets(b, cellIndices, maxSubsetSize) ==
    LET unsolvedCells == UnsolvedCells(b, cellIndices)
        maxSize == IF Len(unsolvedCells) < maxSubsetSize
                   THEN Len(unsolvedCells) ELSE maxSubsetSize
    IN IF Len(cellIndices) = 0 \/ Len(unsolvedCells) < 2
       THEN [b |-> b, changed |-> FALSE]
       ELSE NakedSizes([b |-> b, changed |-> FALSE], unsolvedCells, 2, maxSize)

\* The cells that hold a digit of one combination of digits.
CellUnion(candidateLocations, activeCandidates, combo) ==
    UNION { candidateLocations[activeCandidates[combo[k]]] : k \in 1..Len(combo) }

\* "len(cellUnion) == subsetSize"
IsHiddenSubset(candidateLocations, activeCandidates, combo) ==
    Cardinality(CellUnion(candidateLocations, activeCandidates, combo)) = Len(combo)

\* The removals of one combination of ApplyHiddenSubsets, had the removal
\* loop stopped after the first cell of the union.
HiddenSubsetOfFirstCell(candidateLocations, activeCandidates, combo) ==
    LET subsetCandidates == { activeCandidates[combo[k]] : k \in 1..Len(combo) }
        cells == Ascending(CellUnion(candidateLocations, activeCandidates, combo))
        others == Ascending(Digits \ subsetCandidates)
    IN IF IsHiddenSubset(candidateLocations, activeCandidates, combo)
       THEN [j \in 1..Len(others) |-> <<cells[1], others[j]>>]
       ELSE <<>>

\* The removals one combination of ApplyHiddenSubsets attempts: when it is
\* a hidden subset, every other digit in every cell of its union.
\* candidateLocations is the map built before the loops: the removals of
\* the pass do not refresh it.
HiddenSubset(candidateLocations, activeCandidates, combo) ==
    LET subsetCandidates == { activeCandidates[combo[k]] : k \in 1..Len(combo) }
        cells == Ascending(CellUnion(candidateLocations, activeCandidates, combo))
        others == Ascending(Digits \ subsetCandidates)
    IN IF IsHiddenSubset(candidateLocations, activeCandidates, combo)
       THEN Flatten([k \in 1..Len(cells) |->
                [j \in 1..Len(others) |-> <<cells[k], others[j]>>]])
       ELSE <<>>

\* "for _, combo := range combinations" of ApplyHiddenSubsets.
HiddenCombos(candidateLocations, activeCandidates, combos) ==
    LET found == SelectSeq([k \in 1..Len(combos) |-> k],
                     LAMBDA k : IsHiddenSubset(candidateLocations, activeCandidates,
                                               combos[k]))
    IN Flatten([k \in 1..Len(found) |->
            HiddenSubset(candidateLocations, activeCandidates, combos[found[k]])])

\* "for subsetSize := 2; subsetSize <= maxSize; subsetSize++"
HiddenSizes(candidateLocations, activeCandidates, maxSize) ==
    Flatten([n \in 1..(maxSize - 1) |->
        HiddenCombos(candidateLocations, activeCandidates,
                     Combinations(Len(activeCandidates), n + 1))])

\* ApplyHiddenSubsets, had it never set changed.
ApplyHiddenSubsetsUnreported(b, cellIndices, maxSubsetSize) ==
    LET unsolvedCells == UnsolvedCells(b, cellIndices)
        Holders(c) == SelectSeq(unsolvedCells, LAMBDA i : c \in GetCandidates(b, i))
        candidateLocations == [c \in Digits |-> Range(Holders(c))]
        activeCandidates == SelectSeq([c \in 1..9 |-> c], LAMBDA c : Len(Holders(c)) >= 2)
        maxSize == IF Len(activeCandidates) < maxSubsetSize
                   THEN Len(activeCandidates) ELSE maxSubsetSize
    IN IF Len(cellIndices) = 0 \/ Len(unsolvedCells) < 2 \/ Len(activeCandidates) < 2
       THEN [b |-> b, changed |-> FALSE]
       ELSE [b |-> Eliminate([b |-> b, changed |-> FALSE],
                             HiddenSizes(candidateLocations, activeCandidates, maxSize)).b,
             changed |-> FALSE]

\* utils/BaseConstraint.ApplyHiddenSubsets.  What the loops attempt is fixed
\* by candidateLocations, so the pass is the removal of all they attempt.
ApplyHiddenSubsets(b, cellIndices, maxSubsetSize) ==
    LET unsolvedCells == UnsolvedCells(b, cellIndices)
        \* len(candidateLocations[c]): a cell listed twice in the scope counts twice
        Holders(c) == SelectSeq(unsolvedCells, LAMBDA i : c \in GetCandidates(b, i))
        candidateLocations == [c \in Digits |-> Range(Holders(c))]
        activeCandidates == SelectSeq([c \in 1..9 |-> c], LAMBDA c : Len(Holders(c)) >= 2)
        maxSize == IF Len(activeCandidates) < maxSubsetSize
                   THEN Len(activeCandidates) ELSE maxSubsetSize
    IN IF Len(cellIndices) = 0 \/ Len(unsolvedCells) < 2 \/ Len(activeCandidates) < 2
       THEN [b |-> b, changed |-> FALSE]
       ELSE Eliminate([b |-> b, changed |-> FALSE],
                      HiddenSizes(candidateLocations, activeCandidates, maxSize))

MaxSubsetSize == 4

\* Constraint.ApplyPencilMarkConstraints, had the whispers line run the
\* subset passes as the other variants do.
ConstraintApplyPencilMarkConstraintsOnAll(c, b) ==
    IF c.kind = "none"
    THEN [b |-> b, changed |-> FALSE]
    ELSE LET maxSize == IF c.kind \in {"killer", "renban"} /\ Len(c.Cells) < MaxSubsetSize
                        THEN Len(c.Cells) ELSE MaxSubsetSize
             Both(naked, hidden) ==
                 [b |-> hidden.b, changed |-> hidden.changed \/ naked.changed]
             Hidden(naked) ==
                 IF Computed(naked)
                 THEN Both(naked, ApplyHiddenSubsets(naked.b, c.Cells, maxSize))
                 ELSE naked
         IN Hidden(ApplyNakedSubsets(b, c.Cells, maxSize))

\* Constraint.ApplyPencilMarkConstraints of the variant: naked subsets, then
\* hidden subsets on the board the naked subsets left.
ConstraintApplyPencilMarkConstraints(c, b) ==
    IF c.kind = "whispers" \/ c.kind = "none"
    THEN [b |-> b, changed |-> FALSE]
    ELSE LET maxSize == IF c.kind \in {"killer", "renban"} /\ Len(c.Cells) < MaxSubsetSize
                        THEN Len(c.Cells) ELSE MaxSubsetSize
             Both(naked, hidden) ==
                 [b |-> hidden.b, changed |-> hidden.changed \/ naked.changed]
             Hidden(naked) ==
                 IF Computed(naked)
                 THEN Both(naked, ApplyHiddenSubsets(naked.b, c.Cells, maxSize))
                 ELSE naked
         IN Hidden(ApplyNakedSubsets(b, c.Cells, maxSize))

RECURSIVE PencilMarkFrom(_, _)
PencilMarkFrom(s, k) ==
    IF k > Len(constraints) THEN s
    ELSE IF RequiresUniqueness(constraints[k])
    THEN LET Rest(r) ==
                 IF Computed(r)
                 THEN PencilMarkFrom([b |-> r.b, changed |-> s.changed \/ r.changed], k + 1)
                 ELSE r
         IN Rest(ConstraintApplyPencilMarkConstraints(constraints[k], s.b))
    ELSE PencilMarkFrom(s, k + 1)

\* Board.ApplyPencilMarkConstraints, had it dropped the constraints'
\* reports.
ApplyPencilMarkConstraintsUnreported(b) ==
    LET Silent(r) == [b |-> r.b, changed |-> FALSE]
    IN Silent(PencilMarkFrom([b |-> b, changed |-> FALSE], 1))

\* Board.ApplyPencilMarkConstraints
ApplyPencilMarkConstraints(b) == PencilMarkFrom([b |-> b, changed |-> FALSE], 1)

RECURSIVE UntilStableCountingChanges(_, _)
\* The loop of Board.ApplyPencilMarkConstraintsUntilStable, had it counted
\* an iteration after the test of changed.
UntilStableCountingChanges(b, iterations) ==
    LET Rest(r) ==
            IF ~Computed(r) \/ ~r.changed THEN [b |-> r.b, iterations |-> iterations]
            ELSE UntilStableCountingChanges(r.b, iterations + 1)
    IN Rest(ApplyPencilMarkConstraints(b))

RECURSIVE UntilStable(_, _)
\* The loop of Board.ApplyPencilMarkConstraintsUntilStable after
\* `iterations` passes.
UntilStable(b, iterations) ==
    LET Rest(r) ==
            IF ~Computed(r) \/ ~r.changed THEN [b |-> r.b, iterations |-> iterations + 1]
            ELSE UntilStable(r.b, iterations + 1)
    IN Rest(ApplyPencilMarkConstraints(b))

ApplyPencilMarkConstraintsUntilStable(b) == UntilStable(b, 0)

\* -------------------------------------------------- cross-line deduction

Lines == 0 .. LastIndex

\* b.GetCellAt(line, pos) for a row-based scan, b.GetCellAt(pos, line) otherwise.
LineCell(rowBased, line, pos) == IF rowBased THEN line * 9 + pos ELSE pos * 9 + line

\* The positions of a line where the digit is a candidate of an unsolved cell.
LinePositions(b, rowBased, candidate, line) ==
    { pos \in Lines : HasCandidate(b, LineCell(rowBased, line, pos), candidate) }

\* The scan of one digit in applyXWingsInDirection, had the elimination loop
\* stopped before the last line.
XWingCandidateSparingLastLine(s, rowBased, candidate) ==
    LET linePositions == [line \in Lines |-> LinePositions(s.b, rowBased, candidate, line)]
        lines == { line \in Lines : Cardinality(linePositions[line]) = 2 }
        wings == { w \in lines \X lines :
                     w[1] < w[2] /\ linePositions[w[1]] = linePositions[w[2]] }
        targets == UNION { { LineCell(rowBased, otherLine, pos) :
                                otherLine \in (Lines \ {LastIndex}) \ {w[1], w[2]},
                                pos \in linePositions[w[1]] } : w \in wings }
        cells == Ascending(targets)
    IN Eliminate(s, [k \in 1..Len(cells) |-> <<cells[k], candidate>>])

\* The scan of one digit in applyXWingsInDirection: linePositions is built
\* before any removal of the scan.
XWingCandidate(s, rowBased, candidate) ==
    LET linePositions == [line \in Lines |-> LinePositions(s.b, rowBased, candidate, line)]
        lines == { line \in Lines : Cardinality(linePositions[line]) = 2 }
        \* the pairs of lines with the same two positions
        wings == { w \in lines \X lines :
                     w[1] < w[2] /\ linePositions[w[1]] = linePositions[w[2]] }
        targets == UNION { { LineCell(rowBased, otherLine, pos) :
                                otherLine \in Lines \ {w[1], w[2]},
                                pos \in linePositions[w[1]] } : w \in wings }
        cells == Ascending(targets)
    IN Eliminate(s, [k \in 1..Len(cells) |-> <<cells[k], candidate>>])

RECURSIVE XWingFrom(_, _, _)
XWingFrom(s, rowBased, candidate) ==
    IF candidate > MaxDigit THEN s
    ELSE LET Rest(s1) == IF Computed(s1) THEN XWingFrom(s1, rowBased, candidate + 1) ELSE s1
         IN Rest(XWingCandidate(s, rowBased, candidate))

applyXWingsInDirection(s, rowBased) == XWingFrom(s, rowBased, 1)

applyXWings(s) ==
    LET Columns(rows) == IF Computed(rows) THEN applyXWingsInDirection(rows, FALSE) ELSE rows
    IN Columns(applyXWingsInDirection(s, TRUE))

\* The scan of one digit in applySwordfishInDirection, had it kept only the
\* lines with exactly three positions.
SwordfishCandidateOfThree(s, rowBased, candidate) ==
    LET linePositions == [line \in Lines |-> LinePositions(s.b, rowBased, candidate, line)]
        lines == { line \in Lines : Cardinality(linePositions[line]) = 3 }
        PosUnion(l1, l2, l3) == linePositions[l1] \cup linePositions[l2] \cup linePositions[l3]
        fish == { f \in lines \X lines \X lines :
                    /\ f[1] < f[2] /\ f[2] < f[3]
                    /\ Cardinality(PosUnion(f[1], f[2], f[3])) = 3 }
        targets == UNION { { LineCell(rowBased, otherLine, pos) :
                                otherLine \in Lines \ {f[1], f[2], f[3]},
                                pos \in PosUnion(f[1], f[2], f[3]) } : f \in fish }
        cells == Ascending(targets)
    IN Eliminate(s, [k \in 1..Len(cells) |-> <<cells[k], candidate>>])

\* The scan of one digit in applySwordfishInDirection.
SwordfishCandidate(s, rowBased, candidate) ==
    LET linePositions == [line \in Lines |-> LinePositions(s.b, rowBased, candidate, line)]
        lines == { line \in Lines : Cardinality(linePositions[line]) >= 2
                                    /\ Cardinality(linePositions[line]) <= 3 }
        PosUnion(l1, l2, l3) == linePositions[l1] \cup linePositions[l2] \cup linePositions[l3]
        \* the triples of lines that cover exactly three positions
        fish == { f \in lines \X lines \X lines :
                    /\ f[1] < f[2] /\ f[2] < f[3]
                    /\ Cardinality(PosUnion(f[1], f[2], f[3])) = 3 }
        targets == UNION { { LineCell(rowBased, otherLine, pos) :
                                otherLine \in Lines \ {f[1], f[2], f[3]},
                                pos \in PosUnion(f[1], f[2], f[3]) } : f \in fish }
        cells == Ascending(targets)
    IN Eliminate(s, [k \in 1..Len(cells) |-> <<cells[k], candidate>>])

RECURSIVE SwordfishFrom(_, _, _)
SwordfishFrom(s, rowBased, candidate) ==
    IF candidate > MaxDigit THEN s
    ELSE LET Rest(s1) ==
                 IF Computed(s1) THEN SwordfishFrom(s1, rowBased, candidate + 1) ELSE s1
         IN Rest(SwordfishCandidate(s, rowBased, candidate))

applySwordfishInDirection(s, rowBased) == SwordfishFrom(s, rowBased, 1)

applySwordfish(s) ==
    LET Columns(rows) ==
            IF Computed(rows) THEN applySwordfishInDirection(rows, FALSE) ELSE rows
    IN Columns(applySwordfishInDirection(s, TRUE))

\* Board.getVisibleCells: the other cells of every constraint that holds the cell.
getVisibleCells(i) ==
    UNION { Range(constraints[k].Cells) \ {i} :
                k \in { j \in 1..Len(constraints) : i \in Range(constraints[j].Cells) } }

\* The wing test of applyXYWings on a cell's current candidates: exactly two
\* candidates, exactly one of them a pivot digit.  Z is the other one.
IsWing(b, w, X, Y) ==
    /\ CandidateCount(b, w) = 2
    /\ Cardinality(GetCandidates(b, w) \cap {X, Y}) = 1

WingZ(b, w, X, Y) == CHOOSE z \in GetCandidates(b, w) : z # X /\ z # Y

\* The body of the wing2 loop for one wing2.
XYWingPair(s, pivot, X, Y, wing1, Z1, wing2) ==
    IF wing2 = wing1 \/ ~IsWing(s.b, wing2, X, Y) THEN s
    ELSE IF WingZ(s.b, wing2, X, Y) # Z1 THEN s
    ELSE LET cells == Ascending((getVisibleCells(wing1) \cap getVisibleCells(wing2))
                                \ {pivot, wing1, wing2})
         IN Eliminate(s, [k \in 1..Len(cells) |-> <<cells[k], Z1>>])

RECURSIVE XYWing2From(_, _, _, _, _, _, _, _)
XYWing2From(s, pivot, X, Y, wing1, Z1, visibleCells, k) ==
    IF k > Len(visibleCells) THEN s
    ELSE LET Rest(s1) ==
                 IF Computed(s1)
                 THEN XYWing2From(s1, pivot, X, Y, wing1, Z1, visibleCells, k + 1)
                 ELSE s1
         IN Rest(XYWingPair(s, pivot, X, Y, wing1, Z1, visibleCells[k]))

RECURSIVE XYWing1From(_, _, _, _, _, _)
XYWing1From(s, pivot, X, Y, visibleCells, k) ==
    IF k > Len(visibleCells) THEN s
    ELSE LET Wing2Loop(wing1) ==
                 IF IsWing(s.b, wing1, X, Y)
                 THEN XYWing2From(s, pivot, X, Y, wing1, WingZ(s.b, wing1, X, Y),
                                  visibleCells, 1)
                 ELSE s
             Rest(s1) ==
                 IF Computed(s1) THEN XYWing1From(s1, pivot, X, Y, visibleCells, k + 1) ELSE s1
         IN Rest(Wing2Loop(visibleCells[k]))

(***************************************************************************)
(* getVisibleCells returns the cells in the iteration order of a Go map,   *)
(* which the language leaves open, and the removals of one wing pair can   *)
(* decide whether a later cell still passes the wing test: the pass is     *)
(* nondeterministic in that order.  Only the cells that can pass the wing  *)
(* test at some point of the pivot's loop matter to it.  A removal of the  *)
(* loop takes a digit Z outside {X, Y}, so such a cell holds exactly one   *)
(* of X, Y now, and its other digits but one are digits some wing of the   *)
(* loop can name: WingDigits is the least set closed under that.           *)
(***************************************************************************)
MayBecomeWing(b, w, X, Y, zs) ==
    /\ b.value[w] = 0
    /\ Cardinality(b.candidates[w] \cap {X, Y}) = 1
    /\ Cardinality(b.candidates[w] \ {X, Y}) >= 1
    /\ Cardinality((b.candidates[w] \ {X, Y}) \ zs) <= 1

RECURSIVE WingDigits(_, _, _, _, _)
WingDigits(b, visible, X, Y, zs) ==
    LET next == zs \cup UNION { b.candidates[w] \ {X, Y} :
                                  w \in { v \in visible : MayBecomeWing(b, v, X, Y, zs) } }
    IN IF next = zs THEN zs ELSE WingDigits(b, visible, X, Y, next)

RelevantCells(b, pivot, X, Y) ==
    LET visible == getVisibleCells(pivot)
        zs == WingDigits(b, visible, X, Y, {})
    IN { w \in visible : MayBecomeWing(b, w, X, Y, zs) }

\* The orders in which a Go map of these cells can be ranged over.
RECURSIVE Orders(_)
Orders(S) ==
    IF S = {} THEN { <<>> }
    ELSE UNION { { <<x>> \o rest : rest \in Orders(S \ {x}) } : x \in S }

\* The outcomes of the loop body of applyXYWings for one pivot.
XYWingPivot(s, pivot) ==
    IF CandidateCount(s.b, pivot) # 2 THEN { s }
    ELSE LET X == FirstCandidate(s.b.candidates[pivot])
             Y == CHOOSE y \in s.b.candidates[pivot] : y # X
         IN { XYWing1From(s, pivot, X, Y, visibleCells, 1) :
                 visibleCells \in Orders(RelevantCells(s.b, pivot, X, Y)) }

RECURSIVE XYWingPivots(_, _)
XYWingPivots(S, pivots) ==
    IF pivots = <<>> THEN S
    ELSE XYWingPivots(UNION { XYWingPivot(s, Head(pivots)) : s \in S }, Tail(pivots))

\* applyXYWings: the pass records it can end in.  cells2Cands is built
\* before the pivot loop.
applyXYWings(s) ==
    LET cells2Cands == Ascending({ idx \in Cells : CandidateCount(s.b, idx) = 2 })
    IN XYWingPivots({ s }, cells2Cands)

\* Board.ApplyAdvancedTechniques: X-Wing, then Swordfish, then XY-Wing.
ApplyAdvancedTechniques(b) ==
    LET XYWings(swordfish) ==
            IF Computed(swordfish) THEN applyXYWings(swordfish) ELSE { swordfish }
        Swordfish(xwings) ==
            XYWings(IF Computed(xwings) THEN applySwordfish(xwings) ELSE xwings)
    IN Swordfish(applyXWings([b |-> b, changed |-> FALSE]))

Board == [value |-> value, candidates |-> candidates, log |-> <<>>]

\* Board.AddConstraint: the constraint joins Board.constraints, gets its
\* board reference and observes each cell of its scope, once per occurrence
\* of the cell in the scope.
\* The subscription loop of Board.AddConstraint, had it ranged over the
\* whole board.
SubscribeToEveryCell(nt, cells, o) == [i \in Cells |-> Append(nt[i], o)]

RECURSIVE Subscribe(_, _, _)
Subscribe(nt, cells, o) ==
    IF cells = <<>> THEN nt
    ELSE LET cellIndex == Head(cells)
             nt1 == IF cellIndex >= 0 /\ cellIndex <= 80
                    THEN [nt EXCEPT ![cellIndex] = Append(@, o)]
                    ELSE nt
         IN Subscribe(nt1, Tail(cells), o)

\* CellNotifier.RemoveObserver: the first occurrence leaves the list.
RemoveFirst(list, o) ==
    IF \E k \in 1..Len(list) : list[k] = o
    THEN LET i == CHOOSE k \in 1..Len(list) :
                     list[k] = o /\ \A j \in 1..(k - 1) : list[j] # o
         IN SubSeq(list, 1, i - 1) \o SubSeq(list, i + 1, Len(list))
    ELSE list

\* ------------------------------------------------------------------ inputs

\* The constraints a caller registers in this model.
Catalogue ==
    { NewRowConstraint(0).c,
      NewColumnConstraint(0).c,
      NewBoxConstraint(0).c,
      NewKillerCageConstraint(<<0, 1>>, 9).c,
      NewRenbanConstraint(<<0, 1, 2>>).c,
      NewGermanWhispersConstraint(<<0, 1, 10>>).c }

\* The (row, col, value) arguments of set: the clear value and two digits on
\* two cells of the catalogue's scopes, then a column, a row and two values
\* off range.
SetInputs ==
    ({ <<0, 0>>, <<0, 1>> } \X { 0, 3, 5 })
        \cup { <<<<0, 9>>, 5>>, <<<<-1, 0>>, 5>>, <<<<0, 0>>, 10>>, <<<<0, 0>>, -1>> }

\* The cells and digits of direct removeCandidate / addCandidate calls; 10
\* is no digit.
TouchedCells == { 0, 1 }
TouchedDigits == { 5, 8 }
AddedDigits == { 5, 10 }

ExternalObservers == { ExternalObserver(1) }

\* The (row, col, value) arguments of a caller's own PropagateValueChange.
PropagateInputs == { <<0, 0>>, <<0, 1>> } \X { 5 }

\* The constraints a caller holds: the registered ones and one that was
\* never registered.
HeldConstraints == Range(constraints) \cup { NewRowConstraint(0).c }

\* The scopes and maximum subset sizes of a caller's own subset passes: the
\* first five cells of row 0, and a scope that lists a cell twice.
SubsetScopes == { <<0, 1, 2, 3, 4>>, <<0, 1, 1>> }
SubsetSizes == { 2, 4 }

\* The constraints on which a caller runs ApplyPencilMarkConstraints itself.
PassConstraints ==
    << NewRowConstraint(0).c, NewRenbanConstraint(<<0, 1, 2, 3, 4>>).c,
       NewGermanWhispersConstraint(<<0, 1, 10>>).c >>

\* ------------------------------------------------------------------ actions

Init ==
    /\ value = [i \in Cells |-> 0]
    /\ candidates = [i \in Cells |-> Digits]
    /\ notifier = [i \in Cells |-> <<>>]
    /\ constraints = <<>>
    /\ observers = <<>>
    /\ call = [op |-> "NewBoard", row |-> 0, col |-> 0, arg |-> 0, err |-> FALSE, changed |-> FALSE,
               valid |-> FALSE, repeats |-> FALSE]
    /\ log = <<>>
    /\ history = [anySet |-> FALSE, late |-> <<>>,
                  candidateAdded |-> FALSE, blindSet |-> FALSE]
    /\ ops = 0

Set(row, col, v) ==
    /\ ops < MaxOps
    /\ LET Return(r) ==
               /\ value' = r.b.value
               /\ candidates' = r.b.candidates
               /\ log' = r.b.log
               /\ call' = [op |-> "Set", row |-> row, col |-> col, arg |-> v,
                           err |-> r.err, changed |-> FALSE, valid |-> FALSE, repeats |-> FALSE]
               /\ history' = [history EXCEPT
                     !.anySet = @ \/ (~r.err /\ v # 0),
                     !.blindSet = @ \/ (~r.err /\ v # 0
                                          /\ ~HasCandidate(Board, row * 9 + col, v))]
       IN Return(BoardSet(Board, row, col, v))
    /\ ops' = ops + 1
    /\ UNCHANGED <<notifier, constraints, observers>>

\* Board.AddConstraint, had it run the new constraint's propagation for
\* the cells of its scope that are already solved.
AddConstraintPropagating(c) ==
    /\ ops < MaxOps
    /\ constraints' = Append(constraints, [c EXCEPT !.Board = TRUE])
    /\ notifier' = Subscribe(notifier, c.Cells, ConstraintObserver(Len(constraints) + 1))
    /\ call' = [op |-> "AddConstraint", row |-> 0, col |-> 0, arg |-> 0, err |-> FALSE, changed |-> FALSE,
                valid |-> FALSE, repeats |-> FALSE]
    /\ LET Return(b) ==
               /\ candidates' = b.candidates
               /\ log' = b.log
       IN Return(RemoveEach(Board,
              Flatten([k \in 1..Len(c.Cells) |->
                  IF value[c.Cells[k]] # 0
                  THEN PropagateValueChange([c EXCEPT !.Board = TRUE], value,
                                            RowOf(c.Cells[k]), ColOf(c.Cells[k]),
                                            value[c.Cells[k]])
                  ELSE <<>>])))
    /\ history' = [history EXCEPT !.late = Append(@, history.anySet)]
    /\ ops' = ops + 1
    /\ UNCHANGED <<value, observers>>

AddConstraint(c) ==
    /\ ops < MaxOps
    /\ constraints' = Append(constraints, [c EXCEPT !.Board = TRUE])
    /\ notifier' = Subscribe(notifier, c.Cells, ConstraintObserver(Len(constraints) + 1))
    /\ call' = [op |-> "AddConstraint", row |-> 0, col |-> 0, arg |-> 0, err |-> FALSE, changed |-> FALSE,
                valid |-> FALSE, repeats |-> FALSE]
    /\ log' = <<>>
    /\ history' = [history EXCEPT !.late = Append(@, history.anySet)]
    /\ ops' = ops + 1
    /\ UNCHANGED <<value, candidates, observers>>

RemoveCandidate(i, c) ==
    /\ ops < MaxOps
    /\ LET Return(b) ==
               /\ candidates' = b.candidates
               /\ value' = b.value
               /\ log' = b.log
       IN Return(CellRemoveCandidate(Board, i, c))
    /\ call' = [op |-> "RemoveCandidate", row |-> RowOf(i), col |-> ColOf(i),
                arg |-> c, err |-> FALSE, changed |-> FALSE, valid |-> FALSE, repeats |-> FALSE]
    /\ ops' = ops + 1
    /\ UNCHANGED <<notifier, constraints, observers, history>>

AddCandidate(i, c) ==
    /\ ops < MaxOps
    /\ LET Return(b) ==
               /\ candidates' = b.candidates
               /\ value' = b.value
               /\ log' = b.log
       IN Return(CellAddCandidate(Board, i, c))
    /\ call' = [op |-> "AddCandidate", row |-> RowOf(i), col |-> ColOf(i),
                arg |-> c, err |-> FALSE, changed |-> FALSE, valid |-> FALSE, repeats |-> FALSE]
    /\ history' = [history EXCEPT !.candidateAdded = TRUE]
    /\ ops' = ops + 1
    /\ UNCHANGED <<notifier, constraints, observers>>

\* c.PropagateValueChange(row, col, v), called by the caller on a
\* constraint it holds.
Propagate(c, row, col, v) ==
    /\ ops < MaxOps
    /\ LET Return(b) ==
               /\ candidates' = b.candidates
               /\ value' = b.value
               /\ log' = b.log
       IN Return(RemoveEach(Board, PropagateValueChange(c, value, row, col, v)))
    /\ call' = [op |-> "PropagateValueChange", row |-> row, col |-> col,
                arg |-> v, err |-> FALSE, changed |-> FALSE, valid |-> FALSE, repeats |-> FALSE]
    /\ ops' = ops + 1
    /\ UNCHANGED <<notifier, constraints, observers, history>>

ValidateAll ==
    /\ ops < MaxOps
    /\ call' = [op |-> "ValidateAll", row |-> 0, col |-> 0,
                arg |-> ValidateFrom(constraints, value, 1).evaluated, err |-> FALSE,
                changed |-> FALSE, valid |-> BoardValidateAll(constraints, value),
                repeats |-> FALSE]
    /\ log' = <<>>
    /\ ops' = ops + 1
    /\ UNCHANGED <<value, candidates, notifier, constraints, observers, history>>

AddObserver(o) ==
    /\ ops < MaxOps
    /\ observers' = Append(observers, o)
    /\ notifier' = [i \in Cells |-> Append(notifier[i], o)]
    /\ call' = [op |-> "AddObserver", row |-> 0, col |-> 0, arg |-> o.id, err |-> FALSE, changed |-> FALSE,
                valid |-> FALSE, repeats |-> FALSE]
    /\ log' = <<>>
    /\ ops' = ops + 1
    /\ UNCHANGED <<value, candidates, constraints, history>>

RemoveObserver(o) ==
    /\ ops < MaxOps
    /\ observers' = RemoveFirst(observers, o)
    /\ notifier' = [i \in Cells |-> RemoveFirst(notifier[i], o)]
    /\ call' = [op |-> "RemoveObserver", row |-> 0, col |-> 0, arg |-> o.id, err |-> FALSE, changed |-> FALSE,
                valid |-> FALSE, repeats |-> FALSE]
    /\ log' = <<>>
    /\ ops' = ops + 1
    /\ UNCHANGED <<value, candidates, constraints, history>>

ApplyPencilMark ==
    /\ ops < MaxOps
    /\ LET Return(r) ==
               /\ candidates' = r.b.candidates
               /\ value' = r.b.value
               /\ call' = [op |-> "ApplyPencilMarkConstraints", row |-> 0, col |-> 0,
                           arg |-> 0, err |-> FALSE, changed |-> r.changed, valid |-> FALSE, repeats |-> FALSE]
       IN Return(ApplyPencilMarkConstraints(Board))
    /\ log' = <<>>
    /\ ops' = ops + 1
    /\ UNCHANGED <<notifier, constraints, observers, history>>

ApplyPencilMarkUntilStable ==
    /\ ops < MaxOps
    /\ LET Return(r) ==
               /\ candidates' = r.b.candidates
               /\ value' = r.b.value
               /\ call' = [op |-> "ApplyPencilMarkConstraintsUntilStable",
                           row |-> 0, col |-> 0,
                           arg |-> r.iterations, err |-> FALSE, changed |-> FALSE, valid |-> FALSE, repeats |-> FALSE]
       IN Return(ApplyPencilMarkConstraintsUntilStable(Board))
    /\ log' = <<>>
    /\ ops' = ops + 1
    /\ UNCHANGED <<notifier, constraints, observers, history>>

\* lib.ApplyNakedSubsets(board, cellIndices, maxSubsetSize), called by the
\* caller.
ApplyNaked(cellIndices, maxSubsetSize) ==
    /\ ops < MaxOps
    /\ LET Return(r) ==
               /\ candidates' = r.b.candidates
               /\ value' = r.b.value
               /\ call' = [op |-> "ApplyNakedSubsets", row |-> 0, col |-> 0,
                           arg |-> maxSubsetSize, err |-> FALSE, changed |-> r.changed,
                           valid |-> FALSE, repeats |-> FALSE]
       IN Return(ApplyNakedSubsets(Board, cellIndices, maxSubsetSize))
    /\ log' = <<>>
    /\ ops' = ops + 1
    /\ UNCHANGED <<notifier, constraints, observers, history>>

\* lib.ApplyHiddenSubsets(board, cellIndices, maxSubsetSize), called by the
\* caller.
ApplyHidden(cellIndices, maxSubsetSize) ==
    /\ ops < MaxOps
    /\ LET Return(r) ==
               /\ candidates' = r.b.candidates
               /\ value' = r.b.value
               /\ call' = [op |-> "ApplyHiddenSubsets", row |-> 0, col |-> 0,
                           arg |-> maxSubsetSize, err |-> FALSE, changed |-> r.changed,
                           valid |-> FALSE, repeats |-> FALSE]
       IN Return(ApplyHiddenSubsets(Board, cellIndices, maxSubsetSize))
    /\ log' = <<>>
    /\ ops' = ops + 1
    /\ UNCHANGED <<notifier, constraints, observers, history>>

\* c.ApplyPencilMarkConstraints(board), called by the caller on the k-th
\* constraint it holds.  call.repeats: the call before was the same pass of
\* the same constraint and removed nothing.
ConstraintPass(k) ==
    /\ ops < MaxOps
    /\ LET Return(r) ==
               /\ candidates' = r.b.candidates
               /\ value' = r.b.value
               /\ call' = [op |-> "Constraint.ApplyPencilMarkConstraints",
                           row |-> 0, col |-> 0, arg |-> k, err |-> FALSE,
                           changed |-> r.changed, valid |-> FALSE,
                           repeats |-> /\ call.op = "Constraint.ApplyPencilMarkConstraints"
                                       /\ call.arg = k
                                       /\ ~call.changed]
       IN Return(ConstraintApplyPencilMarkConstraints(PassConstraints[k], Board))
    /\ log' = <<>>
    /\ ops' = ops + 1
    /\ UNCHANGED <<notifier, constraints, observers, history>>

ApplyAdvanced ==
    /\ ops < MaxOps
    /\ \E r \in ApplyAdvancedTechniques(Board) :
          /\ candidates' = r.b.candidates
          /\ value' = r.b.value
          /\ call' = [op |-> "ApplyAdvancedTechniques", row |-> 0, col |-> 0,
                      arg |-> 0, err |-> FALSE, changed |-> r.changed, valid |-> FALSE, repeats |-> FALSE]
    /\ log' = <<>>
    /\ ops' = ops + 1
    /\ UNCHANGED <<notifier, constraints, observers, history>>

Next ==
    \/ \E in \in SetInputs : Set(in[1][1], in[1][2], in[2])
    \/ \E c \in Catalogue : AddConstraint(c)
    \/ \E i \in TouchedCells, c \in TouchedDigits : RemoveCandidate(i, c)
    \/ \E i \in TouchedCells, c \in AddedDigits : AddCandidate(i, c)
    \/ \E c \in HeldConstraints, in \in PropagateInputs :
          Propagate(c, in[1][1], in[1][2], in[2])
    \/ \E o \in ExternalObservers : AddObserver(o)
    \/ \E o \in ExternalObservers : RemoveObserver(o)
    \/ ValidateAll
    \/ \E sc \in SubsetScopes, m \in SubsetSizes : ApplyNaked(sc, m)
    \/ \E sc \in SubsetScopes, m \in SubsetSizes : ApplyHidden(sc, m)
    \/ ApplyPencilMark
    \/ ApplyPencilMarkUntilStable
    \/ ApplyAdvanced

Spec == Init /\ [][Next]_vars

\* ------------------------------------------------ boards with pencil marks

\* Candidate grids a caller reaches from a new board by removeCandidate
\* calls alone: digit 5 confined to two columns of two rows, to three
\* columns of three rows, a pivot with two wings in one row and box, a
\* pair of cells with the same two digits next to a cell that holds both,
\* such a pair next to a cell that its removals turn into the member of
\* a second pair, two digits confined to two of the first five cells of
\* row 0, and a cell of two digits next to two cells that both hold one of
\* them with the same third digit.
XWingBoard ==
    [i \in Cells |->
        IF RowOf(i) \in {0, 1} /\ ColOf(i) \notin {0, 1} THEN Digits \ {5} ELSE Digits]

SwordfishBoard ==
    [i \in Cells |->
        IF RowOf(i) \in {0, 1, 2} /\ ColOf(i) \notin {0, 1, 2} THEN Digits \ {5} ELSE Digits]

XYWingBoard ==
    [i \in Cells |->
        CASE i = 0 -> {5, 8}
          [] i = 1 -> {3, 5}
          [] i = 2 -> {3, 8}
          [] OTHER -> Digits]

NakedPairBoard ==
    [i \in Cells |->
        CASE i = 0 -> {5, 8}
          [] i = 1 -> {5, 8}
          [] i = 2 -> {3, 5, 8}
          [] OTHER -> Digits]

ChainedPairBoard ==
    [i \in Cells |->
        CASE i = 0 -> {5, 8}
          [] i = 1 -> {5, 8}
          [] i = 2 -> {3, 5, 8}
          [] i = 3 -> {3, 9}
          [] i = 4 -> {1, 3, 9}
          [] OTHER -> Digits]

HiddenPairBoard ==
    [i \in Cells |-> IF i \in {2, 3, 4} THEN Digits \ {5, 8} ELSE Digits]

SameDigitWingsBoard ==
    [i \in Cells |->
        CASE i = 0 -> {5, 8}
          [] i = 1 -> {3, 5}
          [] i = 2 -> {3, 5}
          [] OTHER -> Digits]

PencilledBoards ==
    { XWingBoard, SwordfishBoard, XYWingBoard, NakedPairBoard, ChainedPairBoard,
      HiddenPairBoard, SameDigitWingsBoard }

\* A new board after the removeCandidate calls that leave one of the
\* pencilled boards, counted as one call.
PencilledInit ==
    /\ value = [i \in Cells |-> 0]
    /\ candidates \in PencilledBoards
    /\ notifier = [i \in Cells |-> <<>>]
    /\ constraints = <<>>
    /\ observers = <<>>
    /\ call = [op |-> "RemoveCandidates", row |-> 0, col |-> 0, arg |-> 0,
               err |-> FALSE, changed |-> FALSE, valid |-> FALSE, repeats |-> FALSE]
    /\ log = <<>>
    /\ history = [anySet |-> FALSE, late |-> <<>>,
                  candidateAdded |-> FALSE, blindSet |-> FALSE]
    /\ ops = 1

PencilledSpec == PencilledInit /\ [][Next]_vars

\* ------------------------------------------------------- boards with values

\* Value grids a caller reaches from a new board by set calls alone, with no
\* constraint registered: cell (0,2) and cell (1,1) solved or not.
FilledBoards ==
    { [i \in Cells |-> IF i = 2 THEN a ELSE IF i = 10 THEN b ELSE 0] :
         a \in {0, 4, 6}, b \in {0, 9} }

\* A new board after the set calls that leave one of the filled boards,
\* counted as one call.
FilledInit ==
    /\ value \in FilledBoards
    /\ candidates = [i \in Cells |-> IF value[i] # 0 THEN {} ELSE Digits]
    /\ notifier = [i \in Cells |-> <<>>]
    /\ constraints = <<>>
    /\ observers = <<>>
    /\ call = [op |-> "Sets", row |-> 0, col |-> 0, arg |-> 0,
               err |-> FALSE, changed |-> FALSE, valid |-> FALSE, repeats |-> FALSE]
    /\ log = <<>>
    /\ history = [anySet |-> \E i \in Cells : value[i] # 0, late |-> <<>>,
                  candidateAdded |-> FALSE, blindSet |-> FALSE]
    /\ ops = 1

FilledSpec == FilledInit /\ [][Next]_vars

\* ------------------------------------------- boards with constraints
\*                                              registered before the sets

\* Column 0, row 0 and box 0, registered in this order on a new board.
RegisteredConstraints ==
    << [NewColumnConstraint(0).c EXCEPT !.Board = TRUE],
       [NewRowConstraint(0).c EXCEPT !.Board = TRUE],
       [NewBoxConstraint(0).c EXCEPT !.Board = TRUE] >>

RECURSIVE SubscribeAll(_, _, _)
\* The subscriptions of the AddConstraint calls for cs from the k-th on.
SubscribeAll(nt, cs, k) ==
    IF k > Len(cs) THEN nt
    ELSE SubscribeAll(Subscribe(nt, cs[k].Cells, ConstraintObserver(k)), cs, k + 1)

\* Value grids the set calls leave: one value, the same value twice in row
\* 0, and the same value twice in column 0.
RegisteredBoards ==
    { [i \in Cells |-> IF i \in S THEN 5 ELSE 0] : S \in { {0}, {0, 1}, {0, 9} } }

\* A new board after three AddConstraint calls and the set calls that leave
\* one of the registered boards, counted as one call.
RegisteredInit ==
    /\ value \in RegisteredBoards
    /\ candidates = [i \in Cells |-> IF value[i] # 0 THEN {} ELSE Digits]
    /\ notifier = SubscribeAll([i \in Cells |-> <<>>], RegisteredConstraints, 1)
    /\ constraints = RegisteredConstraints
    /\ observers = <<>>
    /\ call = [op |-> "Sets", row |-> 0, col |-> 0, arg |-> 0,
               err |-> FALSE, changed |-> FALSE, valid |-> FALSE, repeats |-> FALSE]
    /\ log = <<>>
    /\ history = [anySet |-> TRUE, late |-> <<FALSE, FALSE, FALSE>>,
                  candidateAdded |-> FALSE, blindSet |-> FALSE]
    /\ ops = 1

RegisteredSpec == RegisteredInit /\ [][Next]_vars

\* ------------------------------------------ passes of single constraints

\* The board API and the passes a caller runs on constraints itself.
PassNext ==
    \/ Next
    \/ \E k \in 1..Len(PassConstraints) : ConstraintPass(k)

PassSpec == PencilledInit /\ [][PassNext]_vars

\* ------------------------------------------------ scopes in several orders

\* Row 0 after removeCandidate calls: cells 0..3 hold {1,2,3,4}, cell 4
\* holds 1 and {5,6,7}, cells 5..7 hold {5,6,7,8} and cell 8 holds {8,9}.
QuadChainBoard ==
    [i \in Cells |->
        CASE i \in 0..3 -> {1, 2, 3, 4}
          [] i = 4 -> {1, 5, 6, 7}
          [] i \in 5..7 -> {5, 6, 7, 8}
          [] i = 8 -> {8, 9}
          [] OTHER -> Digits]

PermutedBoards == { NakedPairBoard, ChainedPairBoard, QuadChainBoard }

Reverse(seq) == [k \in 1..Len(seq) |-> seq[Len(seq) + 1 - k]]

\* The cell lists a caller hands to its subset passes: the first five cells
\* of row 0 and the whole row, each in three orders.
PermutedScopes ==
    { <<0, 1, 2, 3, 4>>, Reverse(<<0, 1, 2, 3, 4>>), <<2, 3, 0, 1, 4>>,
      NewRowConstraint(0).c.Cells, Reverse(NewRowConstraint(0).c.Cells), <<4, 5, 6, 7, 8, 0, 1, 2, 3>> }

\* A new board after the removeCandidate calls that leave one of the
\* boards above, counted as one call.
PermutedInit ==
    /\ value = [i \in Cells |-> 0]
    /\ candidates \in PermutedBoards
    /\ notifier = [i \in Cells |-> <<>>]
    /\ constraints = <<>>
    /\ observers = <<>>
    /\ call = [op |-> "RemoveCandidates", row |-> 0, col |-> 0, arg |-> 0,
               err |-> FALSE, changed |-> FALSE, valid |-> FALSE, repeats |-> FALSE]
    /\ log = <<>>
    /\ history = [anySet |-> FALSE, late |-> <<>>,
                  candidateAdded |-> FALSE, blindSet |-> FALSE]
    /\ ops = 1

\* Naked-subset passes over the scopes above, and removeCandidate calls.
PermutedNext ==
    \/ \E sc \in PermutedScopes, m \in SubsetSizes : ApplyNaked(sc, m)
    \/ \E i \in TouchedCells, c \in TouchedDigits : RemoveCandidate(i, c)

PermutedSpec == PermutedInit /\ [][PermutedNext]_vars

\* ------------------------------------------------- boards with observers

\* The observer lists a caller's addObserver calls leave on a new board:
\* one observer added once, and added twice.
ObservedLists ==
    { << ExternalObserver(1) >>, << ExternalObserver(1), ExternalObserver(1) >> }

\* A new board after the addObserver calls, counted as one call: every
\* cell's notifier holds what Board.observers holds.
ObservedInit ==
    /\ value = [i \in Cells |-> 0]
    /\ candidates = [i \in Cells |-> Digits]
    /\ observers \in ObservedLists
    /\ notifier = [i \in Cells |-> observers]
    /\ constraints = <<>>
    /\ call = [op |-> "AddObservers", row |-> 0, col |-> 0, arg |-> 0,
               err |-> FALSE, changed |-> FALSE, valid |-> FALSE, repeats |-> FALSE]
    /\ log = <<>>
    /\ history = [anySet |-> FALSE, late |-> <<>>,
                  candidateAdded |-> FALSE, blindSet |-> FALSE]
    /\ ops = 1

ObservedSpec == ObservedInit /\ [][Next]_vars

\* ------------------------------------------------------------ constructors

\* Line and box indices, cell lists and target sums a caller hands to the
\* constructors: the ends of each range, the first values outside it, the
\* empty list and lists of one, two and three cells.
ConstructorIndices == { -1, 0, 4, LastIndex, LastIndex + 1 }
ConstructorCells ==
    { <<>>, <<5>>, <<0, 1>>, <<0, 9, 80>>, <<0, 81>>, <<-1, 3>>, <<7, 7>> }
ConstructorSums == { 0, 1, 9, MaxCageSum, MaxCageSum + 1 }

ConstructorInputs ==
    { [kind |-> k, cells |-> <<>>, n |-> n] :
          k \in { "row", "column", "box" }, n \in ConstructorIndices }
    \cup { [kind |-> "killer", cells |-> cs, n |-> n] :
               cs \in ConstructorCells, n \in ConstructorSums }
    \cup { [kind |-> k, cells |-> cs, n |-> 0] :
               k \in { "renban", "whispers" }, cs \in ConstructorCells }

\* The constructor of the variant, on the arguments of the input.
Construct(in) ==
    CASE in.kind = "row" -> NewRowConstraint(in.n)
      [] in.kind = "column" -> NewColumnConstraint(in.n)
      [] in.kind = "box" -> NewBoxConstraint(in.n)
      [] in.kind = "killer" -> NewKillerCageConstraint(in.cells, in.n)
      [] in.kind = "renban" -> NewRenbanConstraint(in.cells)
      [] OTHER -> NewGermanWhispersConstraint(in.cells)

\* A caller constructs a constraint: the call record keeps the arguments
\* and both results.
NewConstraint(in) ==
    /\ ops < MaxOps
    /\ LET Return(r) ==
               call' = [op |-> "NewConstraint", row |-> 0, col |-> 0, arg |-> in.n,
                        err |-> r.err, changed |-> FALSE, valid |-> FALSE,
                        repeats |-> FALSE, input |-> in, made |-> r.c]
       IN Return(Construct(in))
    /\ log' = <<>>
    /\ ops' = ops + 1
    /\ UNCHANGED <<value, candidates, notifier, constraints, observers, history>>

ConstructorNext == \E in \in ConstructorInputs : NewConstraint(in)

ConstructorSpec == Init /\ [][ConstructorNext]_vars

\* ----------------------------------------------------- the standard sudoku

\* main.go: row i, column i and box i are added for i = 0..8 in turn.
StandardConstraints ==
    [k \in 1..27 |->
        LET i == (k - 1) \div 3
        IN CASE (k - 1) % 3 = 0 -> [NewRowConstraint(i).c EXCEPT !.Board = TRUE]
             [] (k - 1) % 3 = 1 -> [NewColumnConstraint(i).c EXCEPT !.Board = TRUE]
             [] OTHER -> [NewBoxConstraint(i).c EXCEPT !.Board = TRUE]]

\* A cell of two digits whose row and column each hold, in another box, a
\* cell with one of them and the same third digit.
WingsApartBoard ==
    [i \in Cells |->
        CASE i = 0 -> {5, 8}
          [] i = 3 -> {3, 5}
          [] i = 27 -> {3, 5}
          [] OTHER -> Digits]

StandardBoards == { WingsApartBoard, XWingBoard, XYWingBoard }

RECURSIVE SubscriptionsOf(_, _, _)
\* The observers of cell i after the AddConstraint calls for cs from the
\* k-th on: each constraint once per occurrence of the cell in its scope,
\* in the order of the calls.
SubscriptionsOf(cs, i, k) ==
    IF k > Len(cs) THEN <<>>
    ELSE [n \in 1..Cardinality({ p \in 1..Len(cs[k].Cells) : cs[k].Cells[p] = i }) |->
             ConstraintObserver(k)]
         \o SubscriptionsOf(cs, i, k + 1)

\* A new board after the 27 AddConstraint calls of main.go and the
\* removeCandidate calls that leave one of the boards above, counted as one
\* call.
StandardInit ==
    /\ value = [i \in Cells |-> 0]
    /\ candidates \in StandardBoards
    /\ notifier = [i \in Cells |-> SubscriptionsOf(StandardConstraints, i, 1)]
    /\ constraints = StandardConstraints
    /\ observers = <<>>
    /\ call = [op |-> "RemoveCandidates", row |-> 0, col |-> 0, arg |-> 0,
               err |-> FALSE, changed |-> FALSE, valid |-> FALSE, repeats |-> FALSE]
    /\ log = <<>>
    /\ history = [anySet |-> FALSE, late |-> [k \in 1..27 |-> FALSE],
                  candidateAdded |-> FALSE, blindSet |-> FALSE]
    /\ ops = 1

StandardNext ==
    \/ \E in \in SetInputs : Set(in[1][1], in[1][2], in[2])
    \/ \E i \in TouchedCells, c \in TouchedDigits : RemoveCandidate(i, c)
    \/ ApplyAdvanced

StandardSpec == StandardInit /\ [][StandardNext]_vars

\* ------------------------------------------- boards with variants
\*                                              registered before the sets

\* A cage, a consecutive-set line, a whispers line and column 0, registered
\* in this order on a new board.
VariantConstraints ==
    << [NewKillerCageConstraint(<<0, 1>>, 9).c EXCEPT !.Board = TRUE],
       [NewRenbanConstraint(<<0, 1, 2>>).c EXCEPT !.Board = TRUE],
       [NewGermanWhispersConstraint(<<0, 1, 10>>).c EXCEPT !.Board = TRUE],
       [NewColumnConstraint(0).c EXCEPT !.Board = TRUE] >>

\* The (row, col, value) arguments of the PropagateValueChange calls a
\* caller makes itself.
VariantPropagateInputs == { <<0, 0>>, <<0, 1>> } \X { 3, 5 }

\* A new board after the four AddConstraint calls, counted as one call.
VariantInit ==
    /\ value = [i \in Cells |-> 0]
    /\ candidates = [i \in Cells |-> Digits]
    /\ notifier = [i \in Cells |-> SubscriptionsOf(VariantConstraints, i, 1)]
    /\ constraints = VariantConstraints
    /\ observers = <<>>
    /\ call = [op |-> "AddConstraint", row |-> 0, col |-> 0, arg |-> 0,
               err |-> FALSE, changed |-> FALSE, valid |-> FALSE, repeats |-> FALSE]
    /\ log = <<>>
    /\ history = [anySet |-> FALSE, late |-> <<FALSE, FALSE, FALSE, FALSE>>,
                  candidateAdded |-> FALSE, blindSet |-> FALSE]
    /\ ops = 1

VariantNext ==
    \/ \E in \in SetInputs : Set(in[1][1], in[1][2], in[2])
    \/ \E k \in 1..Len(VariantConstraints), in \in VariantPropagateInputs :
          Propagate(VariantConstraints[k], in[1][1], in[1][2], in[2])
    \/ \E i \in TouchedCells, c \in TouchedDigits : RemoveCandidate(i, c)

VariantSpec == VariantInit /\ [][VariantNext]_vars

\* ------------------------------------- callbacks that change the observers

(***************************************************************************)
(* A callback runs inside the notifier's loop and may call AddObserver or  *)
(* RemoveObserver on the notifier that is dispatching.  "range             *)
(* cn.observers" reads the slice once: the loop keeps the backing array    *)
(* and the length of that moment.  RemoveObserver's append(s[:i],          *)
(* s[i+1:]...) moves the later elements one slot down in the same array;   *)
(* AddObserver's append writes the next slot of the same array when the    *)
(* capacity allows and moves the list to a new array otherwise, after      *)
(* which the loop's array is no longer written.  A dispatch is a record:   *)
(* arr, the loop's array up to the loop's length; live, cn.observers;      *)
(* room, cap(cn.observers) - len(cn.observers); shared, whether            *)
(* cn.observers still is a slice of the loop's array; log.                 *)
(***************************************************************************)

\* The observers whose callbacks change the list, and what a callback does
\* with the notifier: nothing, RemoveObserver(o) or AddObserver(o).
DispatchObservers == { ExternalObserver(1), ExternalObserver(2), ExternalObserver(3) }

Reactions ==
    { <<"none", ExternalObserver(1)>> }
        \cup ({ "remove" } \X DispatchObservers)
        \cup ({ "add" } \X { ExternalObserver(2), ExternalObserver(3) })

\* CellNotifier.RemoveObserver called during the dispatch.
RemoveObserverDuring(st, o) ==
    IF \A k \in 1..Len(st.live) : st.live[k] # o THEN st
    ELSE LET i == CHOOSE k \in 1..Len(st.live) :
                      st.live[k] = o /\ \A j \in 1..(k - 1) : st.live[j] # o
             n == Len(st.live)
         IN [st EXCEPT
                !.live = RemoveFirst(st.live, o),
                !.room = @ + 1,
                !.arr = IF st.shared
                        THEN [j \in 1..Len(st.arr) |->
                                 IF j >= i /\ j < n THEN st.live[j + 1] ELSE st.arr[j]]
                        ELSE @]

\* CellNotifier.AddObserver called during the dispatch.  A list that has
\* left the loop's array no longer affects the loop, whatever its capacity;
\* the new capacity recorded is that of a doubled array.
AddObserverDuring(st, o) ==
    IF st.room > 0
    THEN [st EXCEPT
             !.live = Append(@, o),
             !.room = @ - 1,
             !.arr = IF st.shared /\ Len(st.live) + 1 <= Len(st.arr)
                     THEN [@ EXCEPT ![Len(st.live) + 1] = o]
                     ELSE @]
    ELSE [st EXCEPT
             !.live = Append(@, o),
             !.room = IF Len(st.live) = 0 THEN 0 ELSE Len(st.live) - 1,
             !.shared = FALSE]

Callback(st, reaction) ==
    CASE reaction[1] = "remove" -> RemoveObserverDuring(st, reaction[2])
      [] reaction[1] = "add" -> AddObserverDuring(st, reaction[2])
      [] OTHER -> st

RECURSIVE NotifyCellSolvedFrom(_, _, _, _, _)
\* The loop of CellNotifier.NotifyCellSolved from position k on: the
\* observer in slot k of the loop's array is told, and its callback runs.
NotifyCellSolvedFrom(st, react, i, v, k) ==
    IF k > Len(st.arr) THEN st
    ELSE LET Rest(st1) ==
                 IF Computed(st1) THEN NotifyCellSolvedFrom(st1, react, i, v, k + 1) ELSE st1
             Told(o) ==
                 Callback([st EXCEPT !.log = Append(@, CellSolvedMsg(o, i, v))], react[o])
         IN Rest(Told(st.arr[k]))

\* The observer lists of cell 0 that AddObserver calls of its notifier
\* leave on a new board.
DispatchLists ==
    { << ExternalObserver(1), ExternalObserver(2) >>,
      << ExternalObserver(1), ExternalObserver(2), ExternalObserver(3) >> }

\* The capacities beyond the length that earlier appends and removals can
\* have left the list with.
MaxRoom == 1

DispatchInit ==
    /\ value = [i \in Cells |-> 0]
    /\ candidates = [i \in Cells |-> Digits]
    /\ \E list \in DispatchLists :
          notifier = [i \in Cells |-> IF i = 0 THEN list ELSE <<>>]
    /\ constraints = <<>>
    /\ observers = <<>>
    /\ call = [op |-> "AddObservers", row |-> 0, col |-> 0, arg |-> 0,
               err |-> FALSE, changed |-> FALSE, valid |-> FALSE, repeats |-> FALSE]
    /\ log = <<>>
    /\ history = [anySet |-> FALSE, late |-> <<>>,
                  candidateAdded |-> FALSE, blindSet |-> FALSE]
    /\ ops = 1

\* cell.GetNotifier().NotifyCellSolved(row, col, v) with callbacks that
\* react as react says.
Notify(i, v, room, react) ==
    /\ ops < MaxOps
    /\ LET Return(st) ==
               /\ notifier' = [notifier EXCEPT ![i] = st.live]
               /\ log' = st.log
       IN Return(NotifyCellSolvedFrom([arr |-> notifier[i], live |-> notifier[i],
                                       room |-> room, shared |-> TRUE, log |-> <<>>],
                                      react, i, v, 1))
    /\ call' = [op |-> "NotifyCellSolved", row |-> RowOf(i), col |-> ColOf(i), arg |-> v,
                err |-> FALSE, changed |-> FALSE, valid |-> FALSE, repeats |-> FALSE]
    /\ ops' = ops + 1
    /\ UNCHANGED <<value, candidates, constraints, observers, history>>

\* cell.GetNotifier().RemoveObserver(o), outside any dispatch.
NotifierRemoveObserver(i, o) ==
    /\ ops < MaxOps
    /\ notifier' = [notifier EXCEPT ![i] = RemoveFirst(@, o)]
    /\ call' = [op |-> "Notifier.RemoveObserver", row |-> RowOf(i), col |-> ColOf(i),
                arg |-> o.id, err |-> FALSE, changed |-> FALSE, valid |-> FALSE,
                repeats |-> FALSE]
    /\ log' = <<>>
    /\ ops' = ops + 1
    /\ UNCHANGED <<value, candidates, constraints, observers, history>>

DispatchNext ==
    \/ \E room \in 0..MaxRoom, react \in [DispatchObservers -> Reactions] :
          Notify(0, 5, room, react)
    \/ \E o \in DispatchObservers : NotifierRemoveObserver(0, o)

DispatchSpec == DispatchInit /\ [][DispatchNext]_vars

\* ------------------------------------------------- the auto-solve observer

(***************************************************************************)
(* An AutoSolverObserver is an object of the caller, outside the board:    *)
(* its fields are a function of the notifications it has received.  On     *)
(* the boards of this section it is the external observer 1, added with    *)
(* Board.AddObserver, and history.autoSolver holds its fields.  The key    *)
(* "row,col" of its map is the pair <<row, col>>.                          *)
(***************************************************************************)
AutoSolver == ExternalObserver(1)

NewAutoSolverObserver ==
    [enabled |-> TRUE, cellsToSolve |-> [key \in {} |-> 0], solutionCount |-> 0]

\* AutoSolverObserver.OnSingleCandidate: aso.cellsToSolve[key] = candidate.
AutoSolverOnSingleCandidate(aso, row, col, candidate) ==
    IF ~aso.enabled THEN aso
    ELSE [aso EXCEPT !.cellsToSolve =
             [key \in DOMAIN @ \cup { <<row, col>> } |->
                 IF key = <<row, col>> THEN candidate ELSE @[key]]]

\* AutoSolverObserver.OnCellSolved: the count goes up and the cell leaves
\* the map.
AutoSolverOnCellSolved(aso, row, col, v) ==
    IF ~aso.enabled THEN aso
    ELSE [aso EXCEPT !.solutionCount = @ + 1,
                     !.cellsToSolve = [key \in DOMAIN @ \ { <<row, col>> } |-> @[key]]]

\* AutoSolverObserver.OnCandidateEliminated does nothing.
AutoSolverOnCandidateEliminated(aso, row, col, candidate, remainingCount) == aso

RECURSIVE AutoSolverReceives(_, _, _)
\* The callbacks of the auto-solver for the notifications of one call, in
\* the order of delivery, from the k-th on.
AutoSolverReceives(aso, lg, k) ==
    IF k > Len(lg) THEN aso
    ELSE LET m == lg[k]
             after ==
                 IF m.obs # AutoSolver THEN aso
                 ELSE CASE m.kind = "SingleCandidate" ->
                               AutoSolverOnSingleCandidate(aso, m.row, m.col, m.digit)
                        [] m.kind = "CellSolved" ->
                               AutoSolverOnCellSolved(aso, m.row, m.col, m.digit)
                        [] OTHER ->
                               AutoSolverOnCandidateEliminated(aso, m.row, m.col, m.digit,
                                                               m.remaining)
         IN AutoSolverReceives(after, lg, k + 1)

AutoSolveBoards == { NakedPairBoard, XYWingBoard }

\* A new board after AddObserver(autoSolver) and the removeCandidate calls
\* that leave one of the boards above, counted as one call: no cell came
\* down to one candidate.
AutoSolveInit ==
    /\ value = [i \in Cells |-> 0]
    /\ candidates \in AutoSolveBoards
    /\ observers = << AutoSolver >>
    /\ notifier = [i \in Cells |-> observers]
    /\ constraints = <<>>
    /\ call = [op |-> "RemoveCandidates", row |-> 0, col |-> 0, arg |-> 0,
               err |-> FALSE, changed |-> FALSE, valid |-> FALSE, repeats |-> FALSE]
    /\ log = <<>>
    /\ history = [anySet |-> FALSE, late |-> <<>>,
                  candidateAdded |-> FALSE, blindSet |-> FALSE,
                  autoSolver |-> NewAutoSolverObserver]
    /\ ops = 1

\* Board.Set with the auto-solver among the observers.
SetObserved(row, col, v) ==
    /\ ops < MaxOps
    /\ LET Return(r) ==
               /\ value' = r.b.value
               /\ candidates' = r.b.candidates
               /\ log' = r.b.log
               /\ call' = [op |-> "Set", row |-> row, col |-> col, arg |-> v,
                           err |-> r.err, changed |-> FALSE, valid |-> FALSE, repeats |-> FALSE]
               /\ history' = [history EXCEPT
                     !.anySet = @ \/ (~r.err /\ v # 0),
                     !.blindSet = @ \/ (~r.err /\ v # 0
                                          /\ ~HasCandidate(Board, row * 9 + col, v)),
                     !.autoSolver = AutoSolverReceives(@, r.b.log, 1)]
       IN Return(BoardSet(Board, row, col, v))
    /\ ops' = ops + 1
    /\ UNCHANGED <<notifier, constraints, observers>>

\* Cell.RemoveCandidate with the auto-solver among the observers.
RemoveCandidateObserved(i, c) ==
    /\ ops < MaxOps
    /\ LET Return(b) ==
               /\ candidates' = b.candidates
               /\ value' = b.value
               /\ log' = b.log
               /\ history' = [history EXCEPT
                     !.autoSolver = AutoSolverReceives(@, b.log, 1)]
       IN Return(CellRemoveCandidate(Board, i, c))
    /\ call' = [op |-> "RemoveCandidate", row |-> RowOf(i), col |-> ColOf(i),
                arg |-> c, err |-> FALSE, changed |-> FALSE, valid |-> FALSE, repeats |-> FALSE]
    /\ ops' = ops + 1
    /\ UNCHANGED <<notifier, constraints, observers>>

\* Cell.AddCandidate, which notifies no observer.
AddCandidateObserved(i, c) ==
    /\ ops < MaxOps
    /\ LET Return(b) ==
               /\ candidates' = b.candidates
               /\ value' = b.value
               /\ log' = b.log
               /\ history' = [history EXCEPT
                     !.candidateAdded = TRUE,
                     !.autoSolver = AutoSolverReceives(@, b.log, 1)]
       IN Return(CellAddCandidate(Board, i, c))
    /\ call' = [op |-> "AddCandidate", row |-> RowOf(i), col |-> ColOf(i),
                arg |-> c, err |-> FALSE, changed |-> FALSE, valid |-> FALSE, repeats |-> FALSE]
    /\ ops' = ops + 1
    /\ UNCHANGED <<notifier, constraints, observers>>

AutoSolveNext ==
    \/ \E in \in SetInputs : SetObserved(in[1][1], in[1][2], in[2])
    \/ \E i \in TouchedCells, c \in TouchedDigits : RemoveCandidateObserved(i, c)
    \/ \E i \in TouchedCells, c \in AddedDigits : AddCandidateObserved(i, c)

AutoSolveSpec == AutoSolveInit /\ [][AutoSolveNext]_vars

\* ------------------------------------------------------------- properties

\* The cells of the scope of the k-th registered constraint.
ScopeOf(k) ==
    { i \in Cells : \E j \in 1..Len(constraints[k].Cells) : constraints[k].Cells[j] = i }

\* The cell a call addressed.
CellOf(c) == c.row * 9 + c.col

\* No two solved cells of the scope of the k-th constraint hold the same value.
NoDuplicateIn(k) ==
    \A i, j \in ScopeOf(k) : (i # j /\ value[i] # 0) => value[i] # value[j]

\* C1, as the specification states it: in every reachable state, no two
\* solved cells of the scope of a registered constraint that requires
\* uniqueness hold the same value.  Board.Set writes any digit into any cell,
\* so this fails.
C1_NoDuplicateInAnyScope ==
    \A k \in 1..Len(constraints) :
        RequiresUniqueness(constraints[k]) => NoDuplicateIn(k)

\* C1, amended: two solved cells of such a scope can hold the same value,
\* and in every reachable state where they do validateAll returns false.
C1_DuplicateFailsValidateAll ==
    ~C1_NoDuplicateInAnyScope => ~BoardValidateAll(constraints, value)

\* Two cells of the row of a registered row constraint hold the same value.
C1_DuplicateInRow ==
    \E k \in 1..Len(constraints) :
        constraints[k].kind = "row" /\ ~NoDuplicateIn(k)

\* C2, as the specification states it: in every reachable state each cell
\* is solved (value in 1..9) exactly when its candidate set is empty, and
\* every candidate set is a subset of 1..9.  Eliminations and the clear
\* operation leave unsolved cells without candidates, so this fails.
C2_SolvedExactlyWhenNoCandidates ==
    \A i \in Cells :
        /\ value[i] \in 0..9
        /\ candidates[i] \subseteq 1..9
        /\ (value[i] # 0 <=> candidates[i] = {})

\* C2, amended: in every reachable state each value is in 0..9, each
\* candidate set is a subset of 1..9, and a solved cell has no candidates (an
\* unsolved cell may have none either).
C2_SolvedCellsHoldNoCandidates ==
    \A i \in Cells :
        /\ value[i] \in 0..9
        /\ candidates[i] \subseteq 1..9
        /\ (value[i] # 0 => candidates[i] = {})

\* A solved cell next to an unsolved cell that has lost every candidate.
C2_SolvedAndEmptyUnsolved ==
    /\ \E i \in Cells : value[i] # 0
    /\ \E j \in Cells : value[j] = 0 /\ candidates[j] = {}

\* The calls on the elimination side: set of a digit (with its on-solve
\* propagation), removeCandidate and the deduction passes.
EliminationCall(c) ==
    \/ c.op = "Set" /\ c.arg # 0
    \/ c.op \in { "RemoveCandidate", "PropagateValueChange",
                  "ApplyNakedSubsets", "ApplyHiddenSubsets",
                  "ApplyPencilMarkConstraints",
                  "ApplyPencilMarkConstraintsUntilStable", "ApplyAdvancedTechniques" }

\* C3: across set(v # 0), removeCandidate, a constraint's propagation,
\* subset passes, pencil-mark passes and advanced-technique passes, the
\* candidate set of every cell after the call is a subset of its candidate
\* set before the call.
C3_CandidatesOnlyShrink ==
    [][EliminationCall(call') =>
          \A i \in Cells : candidates'[i] \subseteq candidates[i]]_vars

\* An advanced-technique pass has removed candidates.
C3_AdvancedPassEliminated ==
    call.op = "ApplyAdvancedTechniques" /\ call.changed

\* C4: no operation other than a successful set on that cell changes the
\* value of a cell; a cell that eliminations leave with exactly one
\* candidate keeps value 0.
C4_OnlySetChangesValue ==
    [][\A i \in Cells :
          value'[i] # value[i] =>
              (call'.op = "Set" /\ ~call'.err /\ CellOf(call') = i)]_vars

\* A pencil-mark pass has left an unsolved cell with exactly one candidate.
C4_PassLeftSingleCandidate ==
    /\ call.op \in { "ApplyPencilMarkConstraints", "ApplyPencilMarkConstraintsUntilStable" }
    /\ call.changed \/ call.arg > 1
    /\ \E i \in Cells : value[i] = 0 /\ Cardinality(candidates[i]) = 1

\* C5, as the specification states it: when addCandidate was never called,
\* after every set call no unsolved cell holds as a candidate the value of a
\* solved cell with which it shares the scope of a row, column or box
\* constraint registered before any value was set.  The OnCellSolved these
\* constraints inherit never reaches their PropagateValueChange, so this
\* fails.
C5_NoSolvedValueAmongSiblings ==
    (call.op = "Set" /\ ~history.candidateAdded) =>
        \A k \in 1..Len(constraints) :
            (constraints[k].kind \in {"row", "column", "box"} /\ ~history.late[k]) =>
                \A i, j \in ScopeOf(k) :
                    (value[i] # 0 /\ value[j] = 0) => value[i] \notin candidates[j]

\* A call whose row or column is outside 0..8 or whose value is outside 0..9.
OffRange(c) ==
    c.row < 0 \/ c.row > 8 \/ c.col < 0 \/ c.col > 8 \/ c.arg < 0 \/ c.arg > 9

\* C6: set with a row or column outside 0..8 or a value outside 0..9 returns
\* an error, delivers no notification and leaves every value and every
\* candidate set as it was.
C6_OffRangeSetChangesNothing ==
    [][(call'.op = "Set" /\ OffRange(call')) =>
          (call'.err /\ log' = <<>> /\ value' = value /\ candidates' = candidates)]_vars

\* An off-range set was refused on a board that holds a solved cell with
\* observers.
C6_RefusedOnSolvedBoard ==
    /\ call.op = "Set" /\ OffRange(call) /\ call.err
    /\ \E i \in Cells : value[i] # 0 /\ notifier[i] # <<>>

\* C7: after a successful set(row, col, v) with v in 1..9, get(row, col)
\* returns v and the candidate set of the cell is empty, whatever the cell
\* held before.
C7_SetThenGet ==
    (call.op = "Set" /\ ~call.err /\ call.arg \in 1..9) =>
        /\ BoardGet(value, call.row, call.col) = call.arg
        /\ candidates[CellOf(call)] = {}

\* The second call was a successful set of a digit the cell did not hold as
\* a candidate (the cell was solved, or had lost the digit).
C7_SetOfNonCandidate ==
    /\ call.op = "Set" /\ ~call.err /\ call.arg \in 1..9
    /\ ops = 2
    /\ history.blindSet

\* C8, as the specification states it: set(row, col, 0) leaves the cell
\* with value 0 and the full candidate set 1..9.  Cell.SetValue(0) does not
\* touch the candidates, so this fails.
C8_ClearRestoresCandidates ==
    (call.op = "Set" /\ ~call.err /\ call.arg = 0) =>
        /\ value[CellOf(call)] = 0
        /\ candidates[CellOf(call)] = 1..9

\* The CellSolved messages of a log, in delivery order.
CellSolvedIn(lg) == SelectSeq(lg, LAMBDA m : m.kind = "CellSolved")

\* C9: a successful set of v # 0 delivers CellSolved(row, col, v) once per
\* registration to the observers of the cell, in registration order, before
\* it returns; a set of 0 delivers no CellSolved.
C9_CellSolvedOncePerRegistration ==
    (call.op = "Set" /\ ~call.err) =>
        LET i == CellOf(call)
        IN IF call.arg # 0
           THEN /\ Len(CellSolvedIn(log)) = Len(notifier[i])
                /\ \A k \in 1..Len(notifier[i]) :
                      CellSolvedIn(log)[k] = CellSolvedMsg(notifier[i][k], i, call.arg)
           ELSE CellSolvedIn(log) = <<>>

\* A set of a digit on a cell observed by a constraint and by an observer
\* of the caller.
C9_SetWithTwoObservers ==
    /\ call.op = "Set" /\ ~call.err /\ call.arg # 0
    /\ \E k, l \in 1..Len(notifier[CellOf(call)]) :
          /\ notifier[CellOf(call)][k].type = "constraint"
          /\ notifier[CellOf(call)][l].type = "external"

\* C10: removeCandidate(c) on an unsolved cell that holds c removes exactly
\* c and delivers CandidateEliminated(row, col, c, n), n the new number of
\* candidates, to each observer of the cell; after these it delivers
\* SingleCandidate(row, col, d), d the candidate left, exactly when n = 1.
C10_RemoveCandidateNotifies ==
    [][(call'.op = "RemoveCandidate" /\ HasCandidate(Board, CellOf(call'), call'.arg)) =>
          LET i == CellOf(call')
              c == call'.arg
              left == candidates[i] \ {c}
              n == Cardinality(left)
              eliminated == [k \in 1..Len(notifier[i]) |->
                                CandidateEliminatedMsg(notifier[i][k], i, c, n)]
              single == [k \in 1..Len(notifier[i]) |->
                            SingleCandidateMsg(notifier[i][k], i, CHOOSE d \in left : TRUE)]
          IN /\ candidates' = [candidates EXCEPT ![i] = left]
             /\ value' = value
             /\ log' = IF n = 1 THEN eliminated \o single ELSE eliminated]_vars

\* A removeCandidate call has left one candidate and delivered
\* SingleCandidate.
C10_RemovalLeftOneCandidate ==
    /\ call.op = "RemoveCandidate"
    /\ \E k \in 1..Len(log) : log[k].kind = "SingleCandidate"

\* C11: removeCandidate(c) on a solved cell, or on an unsolved cell that
\* does not hold c, changes no value and no candidate set and delivers no
\* notification.
C11_RemoveCandidateOfAbsentDigit ==
    [][(call'.op = "RemoveCandidate" /\ ~HasCandidate(Board, CellOf(call'), call'.arg)) =>
          (value' = value /\ candidates' = candidates /\ log' = <<>>)]_vars

\* A removeCandidate call on a solved cell that has an observer.
C11_RemovalOnSolvedCell ==
    /\ call.op = "RemoveCandidate"
    /\ value[CellOf(call)] # 0
    /\ notifier[CellOf(call)] # <<>>

\* The OnCellSolved calls the k-th registered constraint received in a call,
\* in delivery order.
OnCellSolvedOf(k, lg) ==
    SelectSeq(lg, LAMBDA m : m.kind = "CellSolved" /\ m.obs = ConstraintObserver(k))

\* C12: every registered constraint has its board reference set; a
\* successful set of v # 0 on a cell inside the scope of a registered
\* constraint invokes its OnCellSolved(row, col, v), and a set on a cell
\* outside its scope does not invoke it.
C12_ScopeCellsInvokeOnCellSolved ==
    /\ \A k \in 1..Len(constraints) : constraints[k].Board
    /\ (call.op = "Set" /\ ~call.err /\ call.arg # 0) =>
          \A k \in 1..Len(constraints) :
              IF CellOf(call) \in ScopeOf(k)
              THEN /\ OnCellSolvedOf(k, log) # <<>>
                   /\ \A j \in 1..Len(OnCellSolvedOf(k, log)) :
                         OnCellSolvedOf(k, log)[j]
                            = CellSolvedMsg(ConstraintObserver(k), CellOf(call), call.arg)
              ELSE OnCellSolvedOf(k, log) = <<>>

\* A set of a digit on a cell inside the scope of one registered constraint
\* and outside the scope of another.
C12_SetInsideOneScopeOnly ==
    /\ call.op = "Set" /\ ~call.err /\ call.arg # 0
    /\ \E k, l \in 1..Len(constraints) :
          /\ CellOf(call) \in ScopeOf(k)
          /\ CellOf(call) \notin ScopeOf(l)
          /\ OnCellSolvedOf(k, log) # <<>>

\* A successful set of a digit.
SolvingSet(c) == c.op = "Set" /\ ~c.err /\ c.arg # 0

\* C13, as the specification states it: after a set of v # 0 on a cell of a
\* registered killer cage, with m the number of unsolved cage cells and R
\* the target minus the sum of the solved cage values, v is not a candidate
\* of an unsolved cage cell and every candidate c left in one satisfies
\* c = R when m = 1 and m - 1 <= R - c <= 9 (m - 1) when m >= 2.  The
\* OnCellSolved a cage inherits never reaches
\* KillerCageConstraint.PropagateValueChange, so this fails.
C13_CagePrunedAfterSet ==
    SolvingSet(call) =>
        \A k \in 1..Len(constraints) :
            (constraints[k].kind = "killer" /\ CellOf(call) \in ScopeOf(k)) =>
                LET m == Cardinality({ i \in ScopeOf(k) : value[i] = 0 })
                    R == constraints[k].targetSum - SumSolved(constraints[k].Cells, value)
                IN \A i \in ScopeOf(k) :
                      value[i] = 0 =>
                          /\ call.arg \notin candidates[i]
                          /\ \A c \in candidates[i] :
                                IF m = 1 THEN c = R
                                ELSE m - 1 <= R - c /\ R - c <= 9 * (m - 1)

\* C15, as the specification states it: after a set of v # 0 on a cell of a
\* registered consecutive-set line of n cells, v is not a candidate of an
\* unsolved line cell and every candidate c left in one satisfies
\* max(c, hi) - min(c, lo) + 1 <= n, lo and hi the smallest and largest
\* solved values of the line.  The OnCellSolved a line inherits never
\* reaches RenbanConstraint.PropagateValueChange, so this fails.
C15_LinePrunedAfterSet ==
    SolvingSet(call) =>
        \A k \in 1..Len(constraints) :
            (constraints[k].kind = "renban" /\ CellOf(call) \in ScopeOf(k)) =>
                LET lo == MinOf(constraints[k].Cells, value)
                    hi == MaxOf(constraints[k].Cells, value)
                    n == Len(constraints[k].Cells)
                IN \A i \in ScopeOf(k) :
                      value[i] = 0 =>
                          /\ call.arg \notin candidates[i]
                          /\ \A c \in candidates[i] :
                                (IF c > hi THEN c ELSE hi) - (IF c < lo THEN c ELSE lo) + 1 <= n

\* C17, as the specification states it (its pruning half): after a set of
\* v # 0 on a cell of a registered adjacent-difference line, for each
\* position p of the line that holds the cell, an unsolved cell at position
\* p - 1 or p + 1 holds no candidate c with |c - v| < 5.  The OnCellSolved a
\* line inherits never reaches
\* GermanWhispersConstraint.PropagateValueChange, so this fails.
C17_NeighboursPrunedAfterSet ==
    SolvingSet(call) =>
        \A k \in 1..Len(constraints) :
            constraints[k].kind = "whispers" =>
                \A p \in 1..Len(constraints[k].Cells) :
                    constraints[k].Cells[p] = CellOf(call) =>
                        \A q \in {p - 1, p + 1} \cap (1..Len(constraints[k].Cells)) :
                            value[constraints[k].Cells[q]] = 0 =>
                                \A c \in candidates[constraints[k].Cells[q]] :
                                    AbsDiff(c, call.arg) >= MinWhisperDiff

\* No two positions of the scope hold the same solved value.
DistinctIn(c, val) ==
    \A p, q \in 1..Len(c.Cells) :
        (p # q /\ val[c.Cells[p]] # 0) => val[c.Cells[p]] # val[c.Cells[q]]

\* Every cell of the scope is solved.
CompleteIn(c, val) == \A p \in 1..Len(c.Cells) : val[c.Cells[p]] # 0

\* The cages, consecutive-set lines and adjacent-difference lines whose
\* verdict is compared with the specification's.
ValidatedCages ==
    { NewKillerCageConstraint(<<0, 1>>, 4).c,
      NewKillerCageConstraint(<<0, 1>>, 8).c,
      NewKillerCageConstraint(<<0, 1>>, 9).c,
      NewKillerCageConstraint(<<0, 1, 2>>, 12).c }

ValidatedRenbans ==
    { NewRenbanConstraint(<<0, 1>>).c,
      NewRenbanConstraint(<<0, 2>>).c,
      NewRenbanConstraint(<<0, 1, 2>>).c }

ValidatedWhispers ==
    { NewGermanWhispersConstraint(<<0, 1, 10>>).c,
      NewGermanWhispersConstraint(<<0, 10, 1>>).c,
      NewGermanWhispersConstraint(<<1, 10>>).c }

\* C14: isValid of a killer cage is true exactly when the solved values of
\* its scope are pairwise distinct and their sum equals the target if every
\* scope cell is solved, or is at most the target if some cell is unsolved.
C14_KillerCageValidity ==
    \A c \in ValidatedCages :
        KillerCageIsValid(c, value) <=>
            /\ DistinctIn(c, value)
            /\ IF CompleteIn(c, value)
               THEN SumSolved(c.Cells, value) = c.targetSum
               ELSE SumSolved(c.Cells, value) <= c.targetSum

\* Cells (0,0) and (0,1) are solved with distinct values whose sum is the
\* target of one two-cell cage and not that of another.
C14_CompleteCageMeetsTarget ==
    /\ value[0] # 0 /\ value[1] # 0 /\ value[0] # value[1]
    /\ \E c, d \in ValidatedCages :
          /\ c.Cells = <<0, 1>> /\ d.Cells = <<0, 1>>
          /\ KillerCageIsValid(c, value)
          /\ ~KillerCageIsValid(d, value)

\* C16: isValid of a consecutive-set line is true exactly when the solved
\* values of its scope are pairwise distinct and, if every scope cell is
\* solved, largest - smallest + 1 is the number of cells.
C16_RenbanValidity ==
    \A c \in ValidatedRenbans :
        RenbanIsValid(c, value) <=>
            /\ DistinctIn(c, value)
            /\ CompleteIn(c, value) =>
                  MaxOf(c.Cells, value) - MinOf(c.Cells, value) + 1 = Len(c.Cells)

\* A three-cell line is complete and valid while a two-cell line inside it
\* is complete, distinct and not valid.
C16_CompleteRunAndGap ==
    \E c, d \in ValidatedRenbans :
        /\ Len(c.Cells) = 3 /\ CompleteIn(c, value) /\ RenbanIsValid(c, value)
        /\ Len(d.Cells) = 2 /\ CompleteIn(d, value) /\ DistinctIn(d, value)
        /\ ~RenbanIsValid(d, value)

\* C18: isValid of an adjacent-difference line is true exactly when every
\* pair of line-adjacent cells that are both solved differs by at least 5;
\* pairs with an unsolved cell are ignored and repeated values are allowed.
C18_WhispersValidity ==
    \A c \in ValidatedWhispers :
        GermanWhispersIsValid(c, value) <=>
            \A p \in 1..(Len(c.Cells) - 1) :
                (value[c.Cells[p]] # 0 /\ value[c.Cells[p + 1]] # 0) =>
                    AbsDiff(value[c.Cells[p]], value[c.Cells[p + 1]]) >= 5

\* A complete line that repeats a value is valid, and a line with two
\* adjacent solved cells less than 5 apart is not.
C18_RepeatedValueOnValidLine ==
    \E c, d \in ValidatedWhispers :
        /\ CompleteIn(c, value) /\ ~DistinctIn(c, value)
        /\ GermanWhispersIsValid(c, value)
        /\ ~GermanWhispersIsValid(d, value)

\* The combinations of one naked-subset pass over unsolvedCells in the order
\* the pass examines them: size 2 first, up to maxSize.
Examined(unsolvedCells, maxSize) ==
    Flatten([n \in 1..(maxSize - 1) |-> Combinations(Len(unsolvedCells), n + 1)])

RECURSIVE PassAt(_, _, _, _)
\* The pass record when the n-th combination of combos is examined.
PassAt(b, unsolvedCells, combos, n) ==
    IF n = 1 THEN [b |-> b, changed |-> FALSE]
    ELSE LET Examine(s) ==
                 IF Computed(s) THEN NakedSubset(s, unsolvedCells, combos[n - 1])
                 ELSE s
         IN Examine(PassAt(b, unsolvedCells, combos, n - 1))

\* What the pass owes a combination of k distinct cells whose candidates'
\* union has k digits in `before`, the candidates when it is examined: in
\* `after`, the candidates when the next one is examined, every other cell
\* of unsolvedCells has lost these digits and the members hold what they
\* held.
NakedSubsetHonoured(before, after, unsolvedCells, combo) ==
    LET members == { unsolvedCells[combo[j]] : j \in 1..Len(combo) }
        union == UNION { before[i] : i \in members }
    IN (Cardinality(members) = Len(combo) /\ Cardinality(union) = Len(combo))
         => \A i \in Range(unsolvedCells) :
               after[i] = IF i \in members THEN before[i] ELSE before[i] \ union

\* The claim for one pass over scope sc with maximum subset size m that
\* leaves the candidates `left`.
NakedPassHonoured(sc, m, left) ==
    LET unsolvedCells == UnsolvedCells(Board, sc)
        maxSize == IF Len(unsolvedCells) < m THEN Len(unsolvedCells) ELSE m
        combos == Examined(unsolvedCells, maxSize)
    IN /\ \A n \in 1..Len(combos) :
             NakedSubsetHonoured(PassAt(Board, unsolvedCells, combos, n).b.candidates,
                                 PassAt(Board, unsolvedCells, combos, n + 1).b.candidates,
                                 unsolvedCells, combos[n])
       /\ left = PassAt(Board, unsolvedCells, combos, Len(combos) + 1).b.candidates

\* C19: in one naked-subset pass over a scope, every set of k unsolved scope
\* cells, k from 2 to the smaller of the maximum subset size and the number
\* of unsolved scope cells, whose candidates' union has exactly k digits
\* when the pass examines it has these k digits removed from every other
\* unsolved cell of the scope and keeps the candidates of its members; the
\* pass leaves the board the last examination leaves.
C19_NakedSubsetPass ==
    [][\A sc \in SubsetScopes, m \in SubsetSizes :
          (call'.op = "ApplyNakedSubsets" /\ call'.arg = m /\ ApplyNaked(sc, m))
             => NakedPassHonoured(sc, m, candidates')]_vars

\* A naked-subset pass has run in which the pair of cells (0,0), (0,1)
\* reduced cell (0,2) to {3}, which made (0,2), (0,3) a pair that reduced
\* cell (0,4) to {1}, which made (0,2), (0,4) a pair that reduced cell
\* (0,3) to {9}.
C19_PairMadeByEarlierPair ==
    /\ call.op = "ApplyNakedSubsets"
    /\ call.changed
    /\ candidates[0] = {5, 8} /\ candidates[1] = {5, 8}
    /\ candidates[2] = {3}
    /\ candidates[3] = {9}
    /\ candidates[4] = {1}

\* The unsolved cells of scope sc that hold digit d before the pass.
HeldBy(sc, d) == { i \in Range(UnsolvedCells(Board, sc)) : d \in candidates[i] }

\* The claim for one hidden-subset pass over scope sc with maximum subset
\* size m that leaves the candidates `left`.
HiddenPassHonoured(sc, m, left) ==
    LET Honoured(held) ==
            \A D \in SUBSET { d \in Digits : Cardinality(held[d]) >= 2 } :
                ( /\ Cardinality(D) >= 2 /\ Cardinality(D) <= m
                  /\ Cardinality(UNION { held[d] : d \in D }) = Cardinality(D) )
                => \A i \in UNION { held[d] : d \in D } : left[i] \subseteq D
    IN Honoured([d \in Digits |-> HeldBy(sc, d)])

\* C20: in one hidden-subset pass over a scope, for every set of k digits,
\* k from 2 to the maximum subset size, each held at the start of the pass
\* by at least two unsolved scope cells and together held by exactly k
\* unsolved scope cells, these k cells hold no candidate outside the k
\* digits when the pass returns.
C20_HiddenSubsetPass ==
    [][\A sc \in SubsetScopes, m \in SubsetSizes :
          (call'.op = "ApplyHiddenSubsets" /\ call'.arg = m /\ ApplyHidden(sc, m))
             => HiddenPassHonoured(sc, m, candidates')]_vars

\* A hidden-subset pass has run over five cells of which two alone held 5
\* and 8: these two hold {5, 8} and the other three hold what they held.
C20_PairConfinedToTwoCells ==
    /\ call.op = "ApplyHiddenSubsets"
    /\ call.changed
    /\ candidates[0] = {5, 8} /\ candidates[1] = {5, 8}
    /\ \A i \in {2, 3, 4} : candidates[i] = Digits \ {5, 8}

\* The pass record of a call that starts on the board of this state.
Start == [b |-> Board, changed |-> FALSE]

\* The board when the X-Wing scans of a direction begin: rows first, then
\* columns.  The scans of other digits leave a digit where it is, so this is
\* what the scan of each digit finds of that digit.
XWingScanStart(rowBased) ==
    IF rowBased THEN Board ELSE applyXWingsInDirection(Start, TRUE).b

\* Every pair of lines that hold d at the same two positions in `start`
\* leaves d at these positions of no other line in `left`.
XWingsHonoured(start, left, rowBased) ==
    \A d \in Digits :
      \A l1, l2 \in { l \in Lines : Cardinality(LinePositions(start, rowBased, d, l)) = 2 } :
        ( /\ l1 < l2
          /\ LinePositions(start, rowBased, d, l1) = LinePositions(start, rowBased, d, l2) )
        => \A otherLine \in Lines \ {l1, l2},
              pos \in LinePositions(start, rowBased, d, l1) :
                 d \notin left[LineCell(rowBased, otherLine, pos)]

\* C21: after applyAdvancedTechniques, for each digit d and each direction,
\* two lines that each held d as a candidate of an unsolved cell at exactly
\* two positions when the scan for d began, the same two, leave d a
\* candidate at these positions in no other line of the direction.
C21_XWingEliminates ==
    [][call'.op = "ApplyAdvancedTechniques" =>
          \A rowBased \in BOOLEAN :
              XWingsHonoured(XWingScanStart(rowBased), candidates', rowBased)]_vars

\* An advanced pass has run on a board whose rows 0 and 1 hold 5 in columns
\* 0 and 1 only: no other row holds 5 in these columns.
C21_RowsZeroAndOneHoldFive ==
    /\ call.op = "ApplyAdvancedTechniques"
    /\ call.changed
    /\ \A line \in {0, 1} : LinePositions(Board, TRUE, 5, line) = {0, 1}
    /\ \A line \in 2..8 : LinePositions(Board, TRUE, 5, line) = 2..8

\* The board when the Swordfish scans of a direction begin: after the X-Wing
\* scans, rows first, then columns.
SwordfishScanStart(rowBased) ==
    IF rowBased THEN applyXWings(Start).b
    ELSE applySwordfishInDirection(applyXWings(Start), TRUE).b

\* Every triple of lines that hold d at 2 or 3 positions each and at three
\* positions together in `start` leaves d at these positions of no line
\* outside the triple in `left`.
SwordfishHonoured(start, left, rowBased) ==
    /\ start = start
    /\ \A d \in Digits :
          LET Honoured(linePositions) ==
                  \A l1, l2, l3 \in { l \in Lines :
                                        Cardinality(linePositions[l]) \in {2, 3} } :
                    ( /\ l1 < l2 /\ l2 < l3
                      /\ Cardinality(linePositions[l1] \cup linePositions[l2]
                                        \cup linePositions[l3]) = 3 )
                    => \A otherLine \in Lines \ {l1, l2, l3},
                          pos \in linePositions[l1] \cup linePositions[l2]
                                    \cup linePositions[l3] :
                             d \notin left[LineCell(rowBased, otherLine, pos)]
          IN Honoured([l \in Lines |-> LinePositions(start, rowBased, d, l)])

\* C22: after applyAdvancedTechniques, for each digit d and each direction,
\* three lines that each held d as a candidate of an unsolved cell at 2 or
\* 3 positions when the scan for d began, three positions together, leave d
\* a candidate at these positions in no line outside the triple.
C22_SwordfishEliminates ==
    [][call'.op = "ApplyAdvancedTechniques" =>
          \A rowBased \in BOOLEAN :
              SwordfishHonoured(SwordfishScanStart(rowBased), candidates', rowBased)]_vars

\* An advanced pass has run on a board whose row 0 holds 5 in columns 1 and
\* 2 only and whose rows 1 and 2 hold 5 in columns 0, 1 and 2 only: no other
\* row holds 5 in columns 0, 1 or 2.
C22_TwoAndThreePositions ==
    /\ call.op = "ApplyAdvancedTechniques"
    /\ call.changed
    /\ LinePositions(Board, TRUE, 5, 0) = {1, 2}
    /\ \A line \in {1, 2} : LinePositions(Board, TRUE, 5, line) = {0, 1, 2}
    /\ \A line \in 3..8 : LinePositions(Board, TRUE, 5, line) = 3..8

\* The candidates when the XY-Wing step of a call begins: after the X-Wing
\* and Swordfish steps.
XYWingStart == applySwordfish(applyXWings(Start)).b.candidates

\* Unsolved cell w held exactly the digits S at some point between the
\* candidates `start` and the candidates `left`: candidates only leave.
HeldExactly(w, S, start, left) ==
    value[w] = 0 /\ left[w] \subseteq S /\ S \subseteq start[w]

\* A pivot with candidates {X, Y} and two distinct wings visible to it, one
\* with candidates {X, Z}, the other with {Y, Z}.
XYWingFor(Z, start, left) ==
    \E pivot \in { p \in Cells : value[p] = 0 /\ Cardinality(start[p]) = 2 } :
        \E X, Y \in start[pivot] \ {Z} :
            /\ X # Y
            /\ \E wing1, wing2 \in getVisibleCells(pivot) :
                  /\ wing1 # wing2
                  /\ HeldExactly(wing1, {X, Z}, start, left)
                  /\ HeldExactly(wing2, {Y, Z}, start, left)

\* Every digit the XY-Wing step took from a cell, from the candidates
\* `start` to the candidates `left`, has its pivot and wings.
XYWingRemovalsHavePattern(start, left) ==
    /\ start = start
    /\ \A Z \in Digits :
          (\E i \in Cells : Z \in start[i] \ left[i]) => XYWingFor(Z, start, left)

\* C23: the XY-Wing step of applyAdvancedTechniques removes digit Z from a
\* cell only when a pivot with candidates {X, Y} has two distinct wings
\* visible to it, one with candidates {X, Z} and one with {Y, Z}.
C23_XYWingRemovalsHavePattern ==
    [][call'.op = "ApplyAdvancedTechniques" =>
          XYWingRemovalsHavePattern(XYWingStart, candidates')]_vars

ConstraintPassed(c) == c.op = "Constraint.ApplyPencilMarkConstraints"

RECURSIVE AfterPasses(_, _)
\* The pass record of the j-th pencil-mark pass in a row from board b; the
\* record of b itself for j = 0.
AfterPasses(b, j) ==
    IF j = 0 THEN [b |-> b, changed |-> FALSE]
    ELSE LET Pass(before) ==
                 IF Computed(before) THEN ApplyPencilMarkConstraints(before.b) ELSE before
         IN Pass(AfterPasses(b, j - 1))

\* The number of candidates on the grid.
TotalCandidates(cands) ==
    Cardinality({ x \in Cells \X Digits : x[2] \in cands[x[1]] })

\* n is the number of passes of a run until stable from the board of this
\* state that leaves the candidates `left`.
StableAfter(n, left) ==
    /\ n >= 1
    /\ n <= 1 + TotalCandidates(candidates)
    /\ \A j \in 1..(n - 1) :
          /\ AfterPasses(Board, j).changed
          /\ \E i \in Cells : AfterPasses(Board, j).b.candidates[i]
                                 # AfterPasses(Board, j - 1).b.candidates[i]
    /\ ~AfterPasses(Board, n).changed
    /\ AfterPasses(Board, n).b.candidates = AfterPasses(Board, n - 1).b.candidates
    /\ left = AfterPasses(Board, n).b.candidates
    /\ constraints = <<>> => n = 1

\* C25: applyPencilMarkUntilStable returns the number n >= 1 of pencil-mark
\* passes it ran: each of the first n - 1 removed a candidate, the last
\* removed none, n is at most one more than the number of candidates on the
\* grid, and n = 1 when no constraint is registered.
C25_UntilStableCountsPasses ==
    [][call'.op = "ApplyPencilMarkConstraintsUntilStable"
          => StableAfter(call'.arg, candidates')]_vars

\* A run until stable has taken more than one pass.
C25_SecondPassNeeded ==
    /\ call.op = "ApplyPencilMarkConstraintsUntilStable"
    /\ call.arg >= 2

\* The registered constraints that are not valid, by registration number.
InvalidConstraints == { k \in 1..Len(constraints) : ~IsValid(constraints[k], value) }

ReportingCall(c) == c.op \in {"ApplyPencilMarkConstraints", "ApplyAdvancedTechniques"}

\* C27: applyPencilMarkPass and applyAdvancedTechniques return true exactly
\* when the call removed at least one candidate from some cell, and false
\* exactly when every cell's candidates are as they were before the call;
\* neither adds a candidate nor touches a value.
C27_ChangedIffRemoved ==
    [][ReportingCall(call') =>
          /\ call'.changed = (candidates' # candidates)
          /\ \A i \in Cells : candidates'[i] \subseteq candidates[i]
          /\ value' = value]_vars

\* A pass that removed candidates and said so.
C27_PassRemoved ==
    /\ call.op = "ApplyPencilMarkConstraints"
    /\ call.changed
    /\ constraints # <<>>
    /\ \E i \in Cells : value[i] = 0 /\ candidates[i] # Digits

\* The arguments the constructors are to refuse.
Malformed(in) ==
    LET offGrid == \E k \in 1..Len(in.cells) : in.cells[k] < 0 \/ in.cells[k] > 80
    IN CASE in.kind \in { "row", "column", "box" } -> in.n < 0 \/ in.n > 8
         [] in.kind = "killer" -> in.cells = <<>> \/ offGrid \/ in.n < 1 \/ in.n > 45
         [] in.kind = "renban" -> in.cells = <<>> \/ offGrid
         [] OTHER -> Len(in.cells) < 2 \/ offGrid

\* The cells of row, column or box n, as a set.
HouseCells(kind, n) ==
    CASE kind = "row" -> { i \in Cells : RowOf(i) = n }
      [] kind = "column" -> { i \in Cells : ColOf(i) = n }
      [] OTHER -> { i \in Cells : (RowOf(i) \div 3) * 3 + (ColOf(i) \div 3) = n }

\* C28: a constructor returns an error and no constraint exactly when its
\* arguments are malformed, and otherwise a constraint of the variant asked
\* for whose scope is the given cell list, or the 9 cells of the row,
\* column or box.
C28_ConstructorsRefuseMalformed ==
    call.op = "NewConstraint" =>
        /\ call.err = Malformed(call.input)
        /\ call.err => call.made = NoConstraint
        /\ ~call.err =>
              /\ call.made.kind = call.input.kind
              /\ IF call.input.kind \in { "row", "column", "box" }
                 THEN /\ Len(call.made.Cells) = 9
                      /\ Range(call.made.Cells) = HouseCells(call.input.kind, call.input.n)
                 ELSE call.made.Cells = call.input.cells
              /\ call.input.kind = "killer" => call.made.targetSum = call.input.n

\* A cage over cells of the grid with the first target sum above 45 has
\* been refused.
C28_CageSumJustAbove ==
    /\ call.op = "NewConstraint"
    /\ call.input.kind = "killer"
    /\ call.input.cells = <<0, 9, 80>>
    /\ call.input.n = 46
    /\ call.err

\* C29: the operation that follows a removeObserver(o) delivers no
\* notification to o (an addObserver delivers none at all).
C29_RemovedObserverSilent ==
    [][call.op = "RemoveObserver" =>
          \A k \in 1..Len(log') : log'[k].obs # ExternalObserver(call.arg)]_vars

\* The messages of a log that tell of the elimination of digit d at cell j.
Eliminations(lg, j, d) ==
    { k \in 1..Len(lg) : /\ lg[k].kind = "CandidateEliminated"
                          /\ lg[k].row = RowOf(j) /\ lg[k].col = ColOf(j)
                          /\ lg[k].digit = d }

\* The cell a message is about.
MessageCell(msg) == msg.row * 9 + msg.col

\* The messages of a log of one kind.
MessagesOf(lg, kind) ==
    { k \in 1..Len(lg) : lg[k].kind = kind }

\* C30: a set call returns after finitely many notifications: one
\* CellSolved per registration on the cell it solves (none for the clear
\* value or a refused call), at most one CandidateEliminated firing (one
\* message per registration on the cell concerned) for each candidate
\* present on the grid before the call, none for a candidate that was not
\* present, and at most one SingleCandidate firing per cell.  The same
\* bound holds for a propagation the caller runs on a constraint itself.
C30_SetCascadeBounded ==
    [][call'.op \in { "Set", "PropagateValueChange" } =>
          /\ \A k \in MessagesOf(log', "CandidateEliminated") :
                /\ Cardinality(Eliminations(log', MessageCell(log'[k]), log'[k].digit))
                      <= Len(notifier[MessageCell(log'[k])])
                /\ log'[k].digit \in candidates[MessageCell(log'[k])]
          /\ \A j \in Cells :
                Cardinality({ k \in MessagesOf(log', "SingleCandidate") :
                                log'[k].row = RowOf(j) /\ log'[k].col = ColOf(j) })
                    <= Len(notifier[j])
          /\ call'.op = "Set" =>
                /\ Cardinality(MessagesOf(log', "CellSolved"))
                      = IF call'.err \/ call'.arg = 0 THEN 0
                        ELSE Len(notifier[call'.row * 9 + call'.col])
                /\ \A k \in 1..Len(log') :
                      log'[k].kind = "CellSolved" =>
                          /\ log'[k].row = call'.row /\ log'[k].col = call'.col
                          /\ log'[k].digit = call'.arg]_vars

\* A set call has told two registered constraints of the solved cell and
\* left candidates on the cells they cover.
C30_TwoConstraintsTold ==
    /\ call.op = "Set"
    /\ ~call.err
    /\ Len(log) = 2
    /\ \A k \in 1..2 : log[k].kind = "CellSolved" /\ log[k].obs.type = "constraint"
    /\ log[1].obs # log[2].obs
    /\ \E i \in Cells : value[i] = 0 /\ call.arg \in candidates[i]

\* The cell lists of the model that list the same cells as sc.
ScopesLike(sc) == { sc2 \in PermutedScopes : Range(sc2) = Range(sc) }

\* C31: a naked-subset pass leaves the candidates that the same pass leaves
\* from the same grid with the scope's cell list in another order.
C31_PassOrderIndependent ==
    [][\A sc \in PermutedScopes, m \in SubsetSizes :
          (call'.op = "ApplyNakedSubsets" /\ call'.arg = m /\ ApplyNaked(sc, m))
             => \A sc2 \in ScopesLike(sc) :
                   ApplyNakedSubsets(Board, sc2, m).b.candidates = candidates']_vars

RECURSIVE NakedUntilStable(_, _, _)
\* The grid a caller reaches by repeating the naked-subset pass over sc
\* until it returns false.
NakedUntilStable(b, sc, m) ==
    LET Rest(r) ==
            IF ~Computed(r) \/ ~r.changed THEN r.b.candidates
            ELSE NakedUntilStable(r.b, sc, m)
    IN Rest(ApplyNakedSubsets(b, sc, m))

\* Every k unsolved cells of the scope hold at least k candidates together:
\* the unsolved cells can take pairwise distinct candidates.
Fillable(b, sc) ==
    \A S \in SUBSET Range(UnsolvedCells(b, sc)) :
        Cardinality(UNION { b.candidates[i] : i \in S }) >= Cardinality(S)

\* C31, amended: on a grid whose unsolved scope cells can take pairwise
\* distinct candidates, the naked-subset pass repeated until it returns
\* false leaves the same candidates whatever the order of the scope's cell
\* list; what one pass leaves depends on the order.
C31_StableNakedOrderIndependent ==
    [][\A sc \in PermutedScopes, m \in SubsetSizes :
          (call'.op = "ApplyNakedSubsets" /\ call'.arg = m /\ ApplyNaked(sc, m)
             /\ Fillable(Board, sc))
             => \A sc2 \in ScopesLike(sc) :
                   NakedUntilStable([Board EXCEPT !.candidates = candidates'], sc, m)
                      = NakedUntilStable(Board, sc2, m)]_vars

\* One pass over row 0 has found the quad of cells 0..3 after it had
\* examined cells 4..7: cell 4 holds {5,6,7}, and cell 8 still holds 8,
\* which the pass over the row in its own order removes.
C31_QuadFoundTooLate ==
    /\ call.op = "ApplyNakedSubsets"
    /\ call.arg = 4
    /\ candidates[4] = {5, 6, 7}
    /\ \A i \in 5..7 : candidates[i] = {5, 6, 7, 8}
    /\ candidates[8] = {8, 9}

\* Every registered constraint is a whispers line, and there is one.
OnlyWhispers ==
    /\ constraints # <<>>
    /\ \A k \in 1..Len(constraints) : ~RequiresUniqueness(constraints[k])

\* C32: the pencil-mark pass of a whispers line itself returns false and
\* removes nothing, and applyPencilMarkPass on a grid whose registered
\* constraints are all whispers lines returns false and leaves every
\* value and candidate set as it was.
C32_WhispersLeftOut ==
    [][/\ ( /\ ConstraintPassed(call')
             /\ ~RequiresUniqueness(PassConstraints[call'.arg]) )
            => (~call'.changed /\ candidates' = candidates /\ value' = value)
       /\ (call'.op = "ApplyPencilMarkConstraints" /\ OnlyWhispers)
            => (~call'.changed /\ candidates' = candidates /\ value' = value)]_vars

\* applyPencilMarkPass has returned false on a grid whose only constraint
\* is a whispers line over cells 0, 1 and 10, of which cells 0 and 1 hold
\* the pair {5, 8} and cell 10 still holds 5 and 8.
C32_PairOnWhispersLineKept ==
    /\ call.op = "ApplyPencilMarkConstraints"
    /\ ~call.changed
    /\ OnlyWhispers
    /\ candidates[0] = {5, 8} /\ candidates[1] = {5, 8}
    /\ {5, 8} \subseteq candidates[10]

\* The values of the solved cells of a scope.
ScopeSolved(sc) == { value[i] : i \in { j \in Range(sc) : value[j] # 0 } }

\* Some assignment of pairwise distinct values to the unsolved cells of the
\* scope, each a candidate of its cell and none a solved value of the
\* scope, gives cell i digit d: d is free, and every k other unsolved cells
\* hold at least k free candidates other than d together.
CanTake(sc, i, d) ==
    /\ d \notin ScopeSolved(sc)
    /\ LET Spare(free) ==
               \A S \in SUBSET (Range(UnsolvedCells(Board, sc)) \ {i}) :
                   Cardinality(UNION { candidates[j] \cap free : j \in S })
                       >= Cardinality(S)
       IN Spare(Digits \ (ScopeSolved(sc) \cup {d}))

\* C33: the pencil-mark pass of a constraint that requires uniqueness
\* removes digit d from an unsolved cell of its scope only if no assignment
\* of pairwise distinct values to the unsolved scope cells, each from its
\* cell's candidates and distinct from the scope's solved values, gives
\* that cell d.
C33_PassRemovesOnlyImpossible ==
    [][(ConstraintPassed(call') /\ RequiresUniqueness(PassConstraints[call'.arg]))
          => \A i \in Range(UnsolvedCells(Board, PassConstraints[call'.arg].Cells)) :
                \A d \in candidates[i] \ candidates'[i] :
                    ~CanTake(PassConstraints[call'.arg].Cells, i, d)]_vars

\* A complete grid: the shifted-rows pattern with rows 3, 4 and columns 3, 4
\* exchanged, its nine symbols named so that it holds 8 at (0,0), 5 at (0,3)
\* and (3,0), and 3 at (3,3).
Exchanged(n) == CASE n = 3 -> 4 [] n = 4 -> 3 [] OTHER -> n

GridSymbols == <<8, 1, 2, 4, 5, 6, 7, 9, 3>>

SolvedGrid ==
    [i \in Cells |->
        LET r == Exchanged(RowOf(i))
            c == Exchanged(ColOf(i))
        IN GridSymbols[((3 * (r % 3) + (r \div 3) + c) % 9) + 1]]

\* The grid is a completion of the board: every cell holds a digit, every
\* registered constraint is satisfied, solved cells keep their values and
\* unsolved cells take one of their candidates.
Completes(grid) ==
    /\ \A i \in Cells : grid[i] \in Digits
    /\ \A k \in 1..Len(constraints) :
          /\ IsValid(constraints[k], grid)
          /\ \A p \in 1..Len(constraints[k].Cells) : grid[constraints[k].Cells[p]] # 0
    /\ \A i \in Cells : IF value[i] # 0 THEN grid[i] = value[i]
                                        ELSE grid[i] \in candidates[i]

\* C34: with the 27 row, column and box constraints registered,
\* ApplyAdvancedTechniques never removes from a cell the digit the cell
\* takes in a completion of the grid that satisfies every registered
\* constraint and uses only the solved values and candidates of the board
\* before the call.
C34_AdvancedKeepsCompletions ==
    [][(call'.op = "ApplyAdvancedTechniques" /\ Completes(SolvedGrid))
          => \A i \in Cells : value[i] = 0 => SolvedGrid[i] \in candidates'[i]]_vars

\* The cell can hold d in a filling of the constraint's unsolved cells with
\* digits 1..9 that satisfies the constraint together with the solved
\* values val.  A row, column or box of distinct values can always be
\* completed with the digits it lacks.
CanFill(c, val, i, d) ==
    LET given == [val EXCEPT ![i] = d]
        open == { j \in Range(c.Cells) : given[j] = 0 }
    IN IF c.kind \in {"row", "column", "box"} THEN IsValid(c, given)
       ELSE \E filling \in [open -> Digits] :
               IsValid(c, [j \in Cells |-> IF j \in open THEN filling[j] ELSE given[j]])

\* The candidates a step removes from the unsolved cells of the scope are
\* digits the constraint leaves no filling for.
RemovedOnlyImpossible(c, val) ==
    \A i \in Range(c.Cells) :
        val[i] = 0 => \A d \in candidates[i] \ candidates'[i] : ~CanFill(c, val, i, d)

\* C35: the propagation a set brings about is sound for every variant.  A
\* successful set of a digit on a cell removes from the unsolved cells of a
\* registered constraint that holds the cell only digits the constraint
\* leaves no filling for, and so does the constraint's own
\* PropagateValueChange when it is called for a cell of its scope and the
\* value the cell was set to.
C35_PropagationRemovesOnlyImpossible ==
    [][/\ SolvingSet(call') =>
             \A k \in 1..Len(constraints) :
                 CellOf(call') \in ScopeOf(k) => RemovedOnlyImpossible(constraints[k], value')
       /\ call'.op = "PropagateValueChange" =>
             \A k \in 1..Len(constraints), in \in VariantPropagateInputs :
                 (/\ in[1][1] * 9 + in[1][2] \in ScopeOf(k)
                  /\ value[in[1][1] * 9 + in[1][2]] = in[2]
                  /\ Propagate(constraints[k], in[1][1], in[1][2], in[2]))
                     => RemovedOnlyImpossible(constraints[k], value)]_vars

\* The cage of cells 0, 1 and sum 9, called for cell 0 and its value 5, has
\* left 4 alone in cell 1.
C35_CageLeftRemainder ==
    /\ call.op = "PropagateValueChange"
    /\ call.row = 0 /\ call.col = 0 /\ call.arg = 5
    /\ value[0] = 5 /\ value[1] = 0
    /\ candidates[1] = {4}

\* C36: AddConstraint leaves the value and the candidates of every cell as
\* they are and notifies no observer, also when cells of the new
\* constraint's scope are solved already.
C36_AddConstraintLeavesCells ==
    [][call'.op = "AddConstraint"
          => /\ value' = value
             /\ candidates' = candidates
             /\ log' = <<>>]_vars

\* Row 0 has been registered with 4 in cell (0,2), and 4 is still a
\* candidate of the row's other cells.
C36_RowAddedAroundSolvedCell ==
    /\ call.op = "AddConstraint"
    /\ constraints # <<>>
    /\ constraints[Len(constraints)].kind = "row"
    /\ value[2] = 4
    /\ \A i \in ScopeOf(Len(constraints)) \ {2} : value[i] = 0 /\ 4 \in candidates[i]

\* The number of times the observer occurs in the list.
Occurrences(list, o) == Cardinality({ k \in 1..Len(list) : list[k] = o })

\* C37: in the dispatch of one notification of a cell, every observer that
\* is registered on the cell before and after the dispatch is told exactly
\* once, whatever observers the callbacks add or remove.
C37_ToldExactlyOnce ==
    [][call'.op = "NotifyCellSolved"
          => \A o \in DispatchObservers :
                (/\ Occurrences(notifier[0], o) = 1
                 /\ Occurrences(notifier'[0], o) = 1)
                    => Cardinality({ k \in 1..Len(log') : log'[k].obs = o }) = 1]_vars

\* C38: with the auto-solver registered and enabled, every entry
\* (row, col) -> v of its map names an unsolved cell whose candidates are
\* exactly {v}.
C38_QueueNamesSingleCandidates ==
    \A key \in DOMAIN history.autoSolver.cellsToSolve :
        /\ value[key[1] * 9 + key[2]] = 0
        /\ candidates[key[1] * 9 + key[2]] = { history.autoSolver.cellsToSolve[key] }

====
